---- MODULE Spec2Model ----
(***************************************************************************)
(* A model of whytho, the GitLab merge-request review bot.                 *)
(*                                                                         *)
(* Strings are sequences of one-character strings, so that the string      *)
(* operations of the source (Split, TrimPrefix, Index, Atoi, ...) are      *)
(* computed character by character as the Go runtime computes them.        *)
(*                                                                         *)
(* The module holds several specifications over one set of variables:      *)
(*   SpecDiff   the diff annotator and the line resolver (pure functions)  *)
(*   SpecParse  the response parser (pure function)                        *)
(*   Spec       one review cycle (processMergeRequest) against GitLab      *)
(*   SpecHook   the webhook handler and the goroutines it starts           *)
(***************************************************************************)
EXTENDS Integers, Sequences, FiniteSets, TLC

VARIABLES
    \* ---- SpecDiff: addLineNumbersToDiff / findActualLineNumber
    diff,       \* the diff text, as strings.Split(diff, "\n") yields it
    aPos,       \* lines the annotator's loop has consumed
    aSt,        \* the annotator's locals: oldLineNum, newLineNum, diffLineNum, result
    rTarget,    \* the positionedComment handed to findActualLineNumber, or NoTarget
    rRet,       \* what findActualLineNumber returned for rTarget
    \* ---- SpecParse: parseReview
    reviewText, \* the model's response, as strings.Split(reviewText, "\n") yields it
    pPos,       \* lines the parser's loop has consumed
    pSt,        \* the parser's locals: inSummary, summary, comments, positionedComments
    \* ---- Spec: one review cycle, WebhookHandler.processMergeRequest
    serverDiffs, \* the merge request's diffs as GitLab holds them now
    serverRev,   \* how often the merge request was pushed to since the cycle began
    pc,          \* where processMergeRequest stands
    changes,     \* what GetMRChanges returned to the cycle
    prompt,      \* what ReviewCode sent to the model
    review,      \* the models.CodeReview ReviewCode returned
    idx,         \* the index of the posting loop pc names
    log,         \* the calls the cycle made to GitLab and to the model, in order
    modelCalls,  \* calls of GenerateContent
    \* ---- SpecHook: WebhookHandler.HandleWebhook
    webhookSecret, \* h.webhookSecret, "" when WEBHOOK_SECRET is not set
    request,       \* the HTTP request GitLab sent
    hpc,           \* where HandleWebhook stands
    response,      \* what HandleWebhook wrote with c.JSON, or NoResponse
    \* ---- SpecServe: the server handling several requests, their cycles side by side
    served,        \* the requests handled so far, each with the response it got
    cyc,           \* the goroutines running processMergeRequest, each with its locals
    proc,          \* main: "running" until a signal, "shutdown" in srv.Shutdown, "exited" after return
    \* ---- SpecConfig: GitLabService.GetWhyThoConfig
    cfgChanges,    \* the changes of the merge request handed to GetWhyThoConfig
    cfgBranch,     \* .whytho/config.yaml on the target branch: its lines, or NoFile
    cfgRet,        \* what GetWhyThoConfig returned, or the value before the call
    \* ---- SpecFilter: shouldExcludePath / filterExcludedChanges
    fPath,         \* the filePath handed to shouldExcludePath
    fPatterns,     \* the excludePaths of the rule set
    fVerdict,      \* what shouldExcludePath returned, or the value before the call
    fChanges,      \* the changes handed to filterExcludedChanges
    fRet           \* what filterExcludedChanges returned, or the value before the call

diffVars == <<diff, aPos, aSt, rTarget, rRet>>

parseVars == <<reviewText, pPos, pSt>>

cycleVars == <<serverDiffs, serverRev, pc, changes, prompt, review, idx, log, modelCalls>>

hookVars == <<webhookSecret, request, hpc, response>>

serveVars == <<served, cyc, proc>>

configVars == <<cfgChanges, cfgBranch, cfgRet>>

filterVars == <<fPath, fPatterns, fVerdict, fChanges, fRet>>

pureVars == <<configVars, filterVars>>

vars == <<diffVars, parseVars, cycleVars, hookVars, serveVars, pureVars>>

-----------------------------------------------------------------------------
(* Bounds of the model.                                                    *)

\* longest diff text, in lines
MaxDiffLines == 3

\* longest model response, in lines
MaxReviewLines == 3

\* most pushes to the merge request while a cycle runs
MaxPushes == 1

-----------------------------------------------------------------------------
(* Go's strings and strconv, on sequences of characters.                   *)

Digits == <<"0", "1", "2", "3", "4", "5", "6", "7", "8", "9">>

IsDigit(c) == \E d \in 1..10 : Digits[d] = c

DigitVal(c) == (CHOOSE d \in 1..10 : Digits[d] = c) - 1

HasPrefix(s, p) == Len(s) >= Len(p) /\ SubSeq(s, 1, Len(p)) = p

TrimPrefix(s, p) == IF HasPrefix(s, p) THEN SubSeq(s, Len(p) + 1, Len(s)) ELSE s

HasSuffix(s, p) == Len(s) >= Len(p) /\ SubSeq(s, Len(s) - Len(p) + 1, Len(s)) = p

\* strings.Index(s, c) for a one-character separator: 0-based, -1 when absent
Index(s, c) ==
    IF \E i \in 1..Len(s) : s[i] = c
    THEN (CHOOSE i \in 1..Len(s) : s[i] = c /\ \A j \in 1..(i - 1) : s[j] # c) - 1
    ELSE -1

RECURSIVE Split(_, _)
Split(s, c) ==
    LET i == Index(s, c)
    IN  IF i = -1 THEN <<s>>
        ELSE <<SubSeq(s, 1, i)>> \o Split(SubSeq(s, i + 2, Len(s)), c)

RECURSIVE SplitN(_, _, _)
SplitN(s, c, n) ==
    LET i == Index(s, c)
    IN  IF n <= 1 \/ i = -1 THEN <<s>>
        ELSE <<SubSeq(s, 1, i)>> \o SplitN(SubSeq(s, i + 2, Len(s)), c, n - 1)

RECURSIVE DecimalValue(_)
DecimalValue(s) ==
    IF Len(s) = 0 THEN 0
    ELSE 10 * DecimalValue(SubSeq(s, 1, Len(s) - 1)) + DigitVal(s[Len(s)])

\* strconv.Atoi: an optional sign, then one or more decimal digits
Atoi(s) ==
    LET signed == Len(s) > 0 /\ s[1] \in {"+", "-"}
        body   == IF signed THEN SubSeq(s, 2, Len(s)) ELSE s
        ok     == Len(body) > 0 /\ \A i \in 1..Len(body) : IsDigit(body[i])
    IN  IF ~ok THEN [err |-> TRUE, val |-> 0]
        ELSE [err |-> FALSE,
              val |-> IF signed /\ s[1] = "-" THEN 0 - DecimalValue(body)
                      ELSE DecimalValue(body)]

IsSpace(c) == c \in {" ", "\t", "\r"}

RECURSIVE TrimLeft(_)
TrimLeft(s) == IF Len(s) > 0 /\ IsSpace(s[1]) THEN TrimLeft(Tail(s)) ELSE s

RECURSIVE TrimRight(_)
TrimRight(s) ==
    IF Len(s) > 0 /\ IsSpace(s[Len(s)]) THEN TrimRight(SubSeq(s, 1, Len(s) - 1)) ELSE s

TrimSpace(s) == TrimRight(TrimLeft(s))

-----------------------------------------------------------------------------
(* The diff lines the model draws diff texts from.                         *)

HunkHeader   == <<"@", "@", " ", "-", "1", "0", ",", "2", " ", "+", "2", "0", ",", "3", " ", "@", "@">>
HunkNoCount  == <<"@", "@", " ", "-", "3", " ", "+", "5", " ", "@", "@">>
HunkBadOld   == <<"@", "@", " ", "-", "x", ",", "1", " ", "+", "7", ",", "1", " ", "@", "@">>
HunkShort    == <<"@", "@", " ", "-", "4">>
AddedLine    == <<"+", "a">>
RemovedLine  == <<"-", "b">>
ContextLine  == <<" ", "c">>
NewFileMark  == <<"+", "+", "+", " ", "b", "/", "f">>
OldFileMark  == <<"-", "-", "-", " ", "a", "/", "f">>
IndexLine    == <<"i", "n", "d", "e", "x">>
EmptyLine    == <<>>

DiffLines ==
    {HunkHeader, HunkNoCount, HunkBadOld, HunkShort, AddedLine, RemovedLine,
     ContextLine, NewFileMark, OldFileMark, IndexLine, EmptyLine}

SeqsUpTo(S, n) == UNION {[1..k -> S] : k \in 1..n}

DiffTexts == SeqsUpTo(DiffLines, MaxDiffLines)

\* diff texts of two hunks, with lines of each kind in both
MultiHunkDiffs ==
    {<<HunkHeader, ContextLine, RemovedLine, HunkNoCount, AddedLine>>,
     <<HunkNoCount, RemovedLine, AddedLine, HunkHeader, ContextLine, AddedLine>>}

-----------------------------------------------------------------------------
(* ReviewService.addLineNumbersToDiff: the Diff Annotator.                 *)

KindNew     == <<"n", "e", "w">>
KindOld     == <<"o", "l", "d">>
KindContext == <<"c", "o", "n", "t", "e", "x", "t">>

AnnotatorInit == [oldLineNum |-> 0, newLineNum |-> 0, diffLineNum |-> 0, result |-> <<>>]

\* a line written to the result as it is
PassThrough(line) == [text |-> line, tag |-> "none", diffLine |-> 0, lineNum |-> 0]

\* a line written as fmt.Sprintf("%s [DIFF_LINE:%d,<tag>:%d]\n", line, diffLine, lineNum)
Annotated(line, tag, diffLine, lineNum) ==
    [text |-> line, tag |-> tag, diffLine |-> diffLine, lineNum |-> lineNum]

\* an annotator whose hunk parse zeroes a counter when its start field does not parse
annotatorHunkHeaderResetsOnBadField(line, st) ==
    LET parts == Split(line, " ")
    IN  IF Len(parts) >= 3
        THEN LET oldPart0 == TrimPrefix(parts[2], <<"-">>)
                 newPart0 == TrimPrefix(parts[3], <<"+">>)
                 oldComma == Index(oldPart0, ",")
                 newComma == Index(newPart0, ",")
                 oldPart  == IF oldComma > 0 THEN SubSeq(oldPart0, 1, oldComma) ELSE oldPart0
                 newPart  == IF newComma > 0 THEN SubSeq(newPart0, 1, newComma) ELSE newPart0
                 oldStart == Atoi(oldPart)
                 newStart == Atoi(newPart)
             IN  [oldLineNum |-> IF oldStart.err THEN 0 ELSE oldStart.val - 1,
                  newLineNum |-> IF newStart.err THEN 0 ELSE newStart.val - 1]
        ELSE [oldLineNum |-> 0, newLineNum |-> 0]

\* the start line numbers a hunk header sets, in the annotator's copy of the parse
annotatorHunkHeader(line, st) ==
    LET parts == Split(line, " ")
    IN  IF Len(parts) >= 3
        THEN LET oldPart0 == TrimPrefix(parts[2], <<"-">>)
                 newPart0 == TrimPrefix(parts[3], <<"+">>)
                 oldComma == Index(oldPart0, ",")
                 newComma == Index(newPart0, ",")
                 oldPart  == IF oldComma > 0 THEN SubSeq(oldPart0, 1, oldComma) ELSE oldPart0
                 newPart  == IF newComma > 0 THEN SubSeq(newPart0, 1, newComma) ELSE newPart0
                 oldStart == Atoi(oldPart)
                 newStart == Atoi(newPart)
             IN  [oldLineNum |-> IF oldStart.err THEN st.oldLineNum ELSE oldStart.val - 1,
                  newLineNum |-> IF newStart.err THEN st.newLineNum ELSE newStart.val - 1]
        ELSE [oldLineNum |-> st.oldLineNum, newLineNum |-> st.newLineNum]

\* an annotator that restarts the diff position at every hunk header
AnnotateLineRestartsPosition(st, line) ==
    IF HasPrefix(line, <<"@", "@">>)
    THEN LET h == annotatorHunkHeader(line, st)
         IN  [oldLineNum |-> h.oldLineNum, newLineNum |-> h.newLineNum,
              diffLineNum |-> 0,
              result |-> Append(st.result, PassThrough(line))]
    ELSE IF HasPrefix(line, <<"+">>)
    THEN [oldLineNum |-> st.oldLineNum, newLineNum |-> st.newLineNum + 1,
          diffLineNum |-> st.diffLineNum + 1,
          result |-> Append(st.result,
                       Annotated(line, "NEW_LINE", st.diffLineNum + 1, st.newLineNum + 1))]
    ELSE IF HasPrefix(line, <<"-">>)
    THEN [oldLineNum |-> st.oldLineNum + 1, newLineNum |-> st.newLineNum,
          diffLineNum |-> st.diffLineNum + 1,
          result |-> Append(st.result,
                       Annotated(line, "OLD_LINE", st.diffLineNum + 1, st.oldLineNum + 1))]
    ELSE IF HasPrefix(line, <<" ">>)
    THEN [oldLineNum |-> st.oldLineNum + 1, newLineNum |-> st.newLineNum + 1,
          diffLineNum |-> st.diffLineNum + 1,
          result |-> Append(st.result,
                       Annotated(line, "CONTEXT", st.diffLineNum + 1, st.newLineNum + 1))]
    ELSE [st EXCEPT !.result = Append(@, PassThrough(line))]

\* one pass of the loop body over `line`
AnnotateLine(st, line) ==
    IF HasPrefix(line, <<"@", "@">>)
    THEN LET h == annotatorHunkHeader(line, st)
         IN  [oldLineNum |-> h.oldLineNum, newLineNum |-> h.newLineNum,
              diffLineNum |-> st.diffLineNum,
              result |-> Append(st.result, PassThrough(line))]
    ELSE IF HasPrefix(line, <<"+">>)
    THEN [oldLineNum |-> st.oldLineNum, newLineNum |-> st.newLineNum + 1,
          diffLineNum |-> st.diffLineNum + 1,
          result |-> Append(st.result,
                       Annotated(line, "NEW_LINE", st.diffLineNum + 1, st.newLineNum + 1))]
    ELSE IF HasPrefix(line, <<"-">>)
    THEN [oldLineNum |-> st.oldLineNum + 1, newLineNum |-> st.newLineNum,
          diffLineNum |-> st.diffLineNum + 1,
          result |-> Append(st.result,
                       Annotated(line, "OLD_LINE", st.diffLineNum + 1, st.oldLineNum + 1))]
    ELSE IF HasPrefix(line, <<" ">>)
    THEN [oldLineNum |-> st.oldLineNum + 1, newLineNum |-> st.newLineNum + 1,
          diffLineNum |-> st.diffLineNum + 1,
          result |-> Append(st.result,
                       Annotated(line, "CONTEXT", st.diffLineNum + 1, st.newLineNum + 1))]
    ELSE [st EXCEPT !.result = Append(@, PassThrough(line))]

RECURSIVE AnnotateFrom(_, _, _)
AnnotateFrom(d, i, st) ==
    IF i > Len(d) THEN st ELSE AnnotateFrom(d, i + 1, AnnotateLine(st, d[i]))

addLineNumbersToDiff(d) == AnnotateFrom(d, 1, AnnotatorInit).result

-----------------------------------------------------------------------------
(* GitLabService.findActualLineNumber: the Line Resolver.                  *)

NotFound == [err |-> TRUE, line |-> 0]

Found(n) == [err |-> FALSE, line |-> n]

NoTarget == [LineNumber |-> -1, LineType |-> <<>>]

KindOther == <<"x">>

LineTypes == {KindNew, KindOld, KindContext, KindOther}

ResolverInit == [oldLineNum |-> 0, newLineNum |-> 0, diffLineNum |-> 0,
                 returned |-> FALSE, ret |-> NotFound]

\* a resolver whose hunk parse forgets the "- 1" on the new-file start
resolverHunkHeaderOffByOne(line, st) ==
    LET parts == Split(line, " ")
    IN  IF Len(parts) >= 3
        THEN LET oldPart0 == TrimPrefix(parts[2], <<"-">>)
                 newPart0 == TrimPrefix(parts[3], <<"+">>)
                 oldComma == Index(oldPart0, ",")
                 newComma == Index(newPart0, ",")
                 oldPart  == IF oldComma > 0 THEN SubSeq(oldPart0, 1, oldComma) ELSE oldPart0
                 newPart  == IF newComma > 0 THEN SubSeq(newPart0, 1, newComma) ELSE newPart0
                 oldStart == Atoi(oldPart)
                 newStart == Atoi(newPart)
             IN  [oldLineNum |-> IF oldStart.err THEN st.oldLineNum ELSE oldStart.val - 1,
                  newLineNum |-> IF newStart.err THEN st.newLineNum ELSE newStart.val]
        ELSE [oldLineNum |-> st.oldLineNum, newLineNum |-> st.newLineNum]

\* the start line numbers a hunk header sets, in the resolver's copy of the parse
resolverHunkHeader(line, st) ==
    LET parts == Split(line, " ")
    IN  IF Len(parts) >= 3
        THEN LET oldPart0 == TrimPrefix(parts[2], <<"-">>)
                 newPart0 == TrimPrefix(parts[3], <<"+">>)
                 oldComma == Index(oldPart0, ",")
                 newComma == Index(newPart0, ",")
                 oldPart  == IF oldComma > 0 THEN SubSeq(oldPart0, 1, oldComma) ELSE oldPart0
                 newPart  == IF newComma > 0 THEN SubSeq(newPart0, 1, newComma) ELSE newPart0
                 oldStart == Atoi(oldPart)
                 newStart == Atoi(newPart)
             IN  [oldLineNum |-> IF oldStart.err THEN st.oldLineNum ELSE oldStart.val - 1,
                  newLineNum |-> IF newStart.err THEN st.newLineNum ELSE newStart.val - 1]
        ELSE [oldLineNum |-> st.oldLineNum, newLineNum |-> st.newLineNum]

\* a resolver that steps over the +++ and --- file marker lines without counting them
ResolveLineSkipsMarkers(st, line, positionedComment) ==
    IF HasPrefix(line, <<"@", "@">>)
    THEN LET h == resolverHunkHeader(line, st)
         IN  [st EXCEPT !.oldLineNum = h.oldLineNum, !.newLineNum = h.newLineNum]
    ELSE IF HasPrefix(line, <<"+", "+", "+">>) \/ HasPrefix(line, <<"-", "-", "-">>) THEN st
    ELSE IF HasPrefix(line, <<"+">>)
    THEN LET hit == positionedComment.LineType = KindNew
                    /\ st.diffLineNum + 1 = positionedComment.LineNumber
         IN  [oldLineNum |-> st.oldLineNum, newLineNum |-> st.newLineNum + 1,
              diffLineNum |-> st.diffLineNum + 1,
              returned |-> hit,
              ret |-> IF hit THEN Found(st.newLineNum + 1) ELSE st.ret]
    ELSE IF HasPrefix(line, <<"-">>)
    THEN LET hit == positionedComment.LineType = KindOld
                    /\ st.diffLineNum + 1 = positionedComment.LineNumber
         IN  [oldLineNum |-> st.oldLineNum + 1, newLineNum |-> st.newLineNum,
              diffLineNum |-> st.diffLineNum + 1,
              returned |-> hit,
              ret |-> IF hit THEN Found(st.oldLineNum + 1) ELSE st.ret]
    ELSE IF HasPrefix(line, <<" ">>)
    THEN LET hit == positionedComment.LineType = KindContext
                    /\ st.diffLineNum + 1 = positionedComment.LineNumber
         IN  [oldLineNum |-> st.oldLineNum + 1, newLineNum |-> st.newLineNum + 1,
              diffLineNum |-> st.diffLineNum + 1,
              returned |-> hit,
              ret |-> IF hit THEN Found(st.newLineNum + 1) ELSE st.ret]
    ELSE st

\* a resolver that returns at the target position whatever kind was asked for
ResolveLineIgnoresKind(st, line, positionedComment) ==
    IF HasPrefix(line, <<"@", "@">>)
    THEN LET h == resolverHunkHeader(line, st)
         IN  [st EXCEPT !.oldLineNum = h.oldLineNum, !.newLineNum = h.newLineNum]
    ELSE IF HasPrefix(line, <<"+">>)
    THEN LET hit == st.diffLineNum + 1 = positionedComment.LineNumber
         IN  [oldLineNum |-> st.oldLineNum, newLineNum |-> st.newLineNum + 1,
              diffLineNum |-> st.diffLineNum + 1,
              returned |-> hit,
              ret |-> IF hit THEN Found(st.newLineNum + 1) ELSE st.ret]
    ELSE IF HasPrefix(line, <<"-">>)
    THEN LET hit == st.diffLineNum + 1 = positionedComment.LineNumber
         IN  [oldLineNum |-> st.oldLineNum + 1, newLineNum |-> st.newLineNum,
              diffLineNum |-> st.diffLineNum + 1,
              returned |-> hit,
              ret |-> IF hit THEN Found(st.oldLineNum + 1) ELSE st.ret]
    ELSE IF HasPrefix(line, <<" ">>)
    THEN LET hit == st.diffLineNum + 1 = positionedComment.LineNumber
         IN  [oldLineNum |-> st.oldLineNum + 1, newLineNum |-> st.newLineNum + 1,
              diffLineNum |-> st.diffLineNum + 1,
              returned |-> hit,
              ret |-> IF hit THEN Found(st.newLineNum + 1) ELSE st.ret]
    ELSE st

\* one pass of the loop body over `line`, for the comment positionedComment
ResolveLine(st, line, positionedComment) ==
    IF HasPrefix(line, <<"@", "@">>)
    THEN LET h == resolverHunkHeader(line, st)
         IN  [st EXCEPT !.oldLineNum = h.oldLineNum, !.newLineNum = h.newLineNum]
    ELSE IF HasPrefix(line, <<"+">>)
    THEN LET hit == positionedComment.LineType = KindNew
                    /\ st.diffLineNum + 1 = positionedComment.LineNumber
         IN  [oldLineNum |-> st.oldLineNum, newLineNum |-> st.newLineNum + 1,
              diffLineNum |-> st.diffLineNum + 1,
              returned |-> hit,
              ret |-> IF hit THEN Found(st.newLineNum + 1) ELSE st.ret]
    ELSE IF HasPrefix(line, <<"-">>)
    THEN LET hit == positionedComment.LineType = KindOld
                    /\ st.diffLineNum + 1 = positionedComment.LineNumber
         IN  [oldLineNum |-> st.oldLineNum + 1, newLineNum |-> st.newLineNum,
              diffLineNum |-> st.diffLineNum + 1,
              returned |-> hit,
              ret |-> IF hit THEN Found(st.oldLineNum + 1) ELSE st.ret]
    ELSE IF HasPrefix(line, <<" ">>)
    THEN LET hit == positionedComment.LineType = KindContext
                    /\ st.diffLineNum + 1 = positionedComment.LineNumber
         IN  [oldLineNum |-> st.oldLineNum + 1, newLineNum |-> st.newLineNum + 1,
              diffLineNum |-> st.diffLineNum + 1,
              returned |-> hit,
              ret |-> IF hit THEN Found(st.newLineNum + 1) ELSE st.ret]
    ELSE st

\* the loop, left at the first return
RECURSIVE ResolveFrom(_, _, _, _)
ResolveFrom(d, i, st, positionedComment) ==
    IF i > Len(d) \/ st.returned THEN st
    ELSE ResolveFrom(d, i + 1, ResolveLine(st, d[i], positionedComment), positionedComment)

findActualLineNumber(d, positionedComment) ==
    ResolveFrom(d, 1, ResolverInit, positionedComment).ret

-----------------------------------------------------------------------------
(* ReviewService.parseReview: the Response Parser.                         *)

CommentPrefix == <<"C", "O", "M", "M", "E", "N", "T", ":">>

ParserInit == [inSummary |-> TRUE, summary |-> <<>>, comments |-> <<>>,
               positionedComments |-> <<>>]

PositionedComment(filePath, lineNum, lineType, severity, commentText) ==
    [FilePath |-> filePath, LineNumber |-> lineNum, LineType |-> lineType,
     Severity |-> severity, Comment |-> commentText, OriginalLine |-> <<>>]

\* a parser that drops a comment whose line number does not parse
ParseLineDropsBadNumber(st, rawLine) ==
    LET line == TrimSpace(rawLine)
    IN  IF HasPrefix(line, CommentPrefix)
        THEN LET comment == TrimSpace(TrimPrefix(line, CommentPrefix))
                 parts   == SplitN(comment, ":", 5)
                 off     == [st EXCEPT !.inSummary = FALSE]
             IN  IF comment = <<>> THEN off
                 ELSE IF Len(parts) = 5
                 THEN LET lineNum == Atoi(parts[2])
                      IN  IF ~lineNum.err
                          THEN [off EXCEPT !.positionedComments =
                                   Append(@, PositionedComment(parts[1], lineNum.val,
                                                               parts[3], parts[4], parts[5]))]
                          ELSE off
                 ELSE [off EXCEPT !.comments = Append(@, comment)]
        ELSE IF st.inSummary /\ line # <<>>
        THEN [st EXCEPT !.summary = IF Len(@) > 0 THEN @ \o <<" ">> \o line ELSE line]
        ELSE st

\* a parser whose summary mode comes back on at a blank line
ParseLineSummaryResumes(st, rawLine) ==
    LET line == TrimSpace(rawLine)
    IN  IF HasPrefix(line, CommentPrefix)
        THEN LET comment == TrimSpace(TrimPrefix(line, CommentPrefix))
                 parts   == SplitN(comment, ":", 5)
                 off     == [st EXCEPT !.inSummary = FALSE]
             IN  IF comment = <<>> THEN off
                 ELSE IF Len(parts) = 5
                 THEN LET lineNum == Atoi(parts[2])
                      IN  IF ~lineNum.err
                          THEN [off EXCEPT !.positionedComments =
                                   Append(@, PositionedComment(parts[1], lineNum.val,
                                                               parts[3], parts[4], parts[5]))]
                          ELSE [off EXCEPT !.comments = Append(@, comment)]
                 ELSE [off EXCEPT !.comments = Append(@, comment)]
        ELSE IF st.inSummary /\ line # <<>>
        THEN [st EXCEPT !.summary = IF Len(@) > 0 THEN @ \o <<" ">> \o line ELSE line]
        ELSE IF line = <<>> THEN [st EXCEPT !.inSummary = TRUE]
        ELSE st

\* a parser that splits the comment at every colon
ParseLineSplitsAllColons(st, rawLine) ==
    LET line == TrimSpace(rawLine)
    IN  IF HasPrefix(line, CommentPrefix)
        THEN LET comment == TrimSpace(TrimPrefix(line, CommentPrefix))
                 parts   == Split(comment, ":")
                 off     == [st EXCEPT !.inSummary = FALSE]
             IN  IF comment = <<>> THEN off
                 ELSE IF Len(parts) = 5
                 THEN LET lineNum == Atoi(parts[2])
                      IN  IF ~lineNum.err
                          THEN [off EXCEPT !.positionedComments =
                                   Append(@, PositionedComment(parts[1], lineNum.val,
                                                               parts[3], parts[4], parts[5]))]
                          ELSE [off EXCEPT !.comments = Append(@, comment)]
                 ELSE [off EXCEPT !.comments = Append(@, comment)]
        ELSE IF st.inSummary /\ line # <<>>
        THEN [st EXCEPT !.summary = IF Len(@) > 0 THEN @ \o <<" ">> \o line ELSE line]
        ELSE st

\* a parser that drops a comment with fewer than five fields
ParseLineDropsFewFields(st, rawLine) ==
    LET line == TrimSpace(rawLine)
    IN  IF HasPrefix(line, CommentPrefix)
        THEN LET comment == TrimSpace(TrimPrefix(line, CommentPrefix))
                 parts   == SplitN(comment, ":", 5)
                 off     == [st EXCEPT !.inSummary = FALSE]
             IN  IF comment = <<>> THEN off
                 ELSE IF Len(parts) = 5
                 THEN LET lineNum == Atoi(parts[2])
                      IN  IF ~lineNum.err
                          THEN [off EXCEPT !.positionedComments =
                                   Append(@, PositionedComment(parts[1], lineNum.val,
                                                               parts[3], parts[4], parts[5]))]
                          ELSE [off EXCEPT !.comments = Append(@, comment)]
                 ELSE off
        ELSE IF st.inSummary /\ line # <<>>
        THEN [st EXCEPT !.summary = IF Len(@) > 0 THEN @ \o <<" ">> \o line ELSE line]
        ELSE st

\* a parser that ignores an empty comment altogether
ParseLineEmptyCommentKeepsSummary(st, rawLine) ==
    LET line == TrimSpace(rawLine)
    IN  IF HasPrefix(line, CommentPrefix)
        THEN LET comment == TrimSpace(TrimPrefix(line, CommentPrefix))
                 parts   == SplitN(comment, ":", 5)
                 off     == [st EXCEPT !.inSummary = FALSE]
             IN  IF comment = <<>> THEN st
                 ELSE IF Len(parts) = 5
                 THEN LET lineNum == Atoi(parts[2])
                      IN  IF ~lineNum.err
                          THEN [off EXCEPT !.positionedComments =
                                   Append(@, PositionedComment(parts[1], lineNum.val,
                                                               parts[3], parts[4], parts[5]))]
                          ELSE [off EXCEPT !.comments = Append(@, comment)]
                 ELSE [off EXCEPT !.comments = Append(@, comment)]
        ELSE IF st.inSummary /\ line # <<>>
        THEN [st EXCEPT !.summary = IF Len(@) > 0 THEN @ \o <<" ">> \o line ELSE line]
        ELSE st

\* a parser that joins the summary lines with newlines
ParseLineJoinsWithNewline(st, rawLine) ==
    LET line == TrimSpace(rawLine)
    IN  IF HasPrefix(line, CommentPrefix)
        THEN LET comment == TrimSpace(TrimPrefix(line, CommentPrefix))
                 parts   == SplitN(comment, ":", 5)
                 off     == [st EXCEPT !.inSummary = FALSE]
             IN  IF comment = <<>> THEN off
                 ELSE IF Len(parts) = 5
                 THEN LET lineNum == Atoi(parts[2])
                      IN  IF ~lineNum.err
                          THEN [off EXCEPT !.positionedComments =
                                   Append(@, PositionedComment(parts[1], lineNum.val,
                                                               parts[3], parts[4], parts[5]))]
                          ELSE [off EXCEPT !.comments = Append(@, comment)]
                 ELSE [off EXCEPT !.comments = Append(@, comment)]
        ELSE IF st.inSummary /\ line # <<>>
        THEN [st EXCEPT !.summary = IF Len(@) > 0 THEN @ \o <<"\n">> \o line ELSE line]
        ELSE st

\* a parser that keeps a comment with a non-integer line number twice: as a
\* positioned comment at line 0 and as an unpositioned comment
ParseLineKeepsBadNumberTwice(st, rawLine) ==
    LET line == TrimSpace(rawLine)
    IN  IF HasPrefix(line, CommentPrefix)
        THEN LET comment == TrimSpace(TrimPrefix(line, CommentPrefix))
                 parts   == SplitN(comment, ":", 5)
                 off     == [st EXCEPT !.inSummary = FALSE]
             IN  IF comment = <<>> THEN off
                 ELSE IF Len(parts) = 5
                 THEN LET lineNum == Atoi(parts[2])
                      IN  IF ~lineNum.err
                          THEN [off EXCEPT !.positionedComments =
                                   Append(@, PositionedComment(parts[1], lineNum.val,
                                                               parts[3], parts[4], parts[5]))]
                          ELSE [off EXCEPT !.comments = Append(@, comment),
                                           !.positionedComments =
                                   Append(@, PositionedComment(parts[1], 0,
                                                               parts[3], parts[4], parts[5]))]
                 ELSE [off EXCEPT !.comments = Append(@, comment)]
        ELSE IF st.inSummary /\ line # <<>>
        THEN [st EXCEPT !.summary = IF Len(@) > 0 THEN @ \o <<" ">> \o line ELSE line]
        ELSE st

\* one pass of the loop body over `rawLine`
ParseLine(st, rawLine) ==
    LET line == TrimSpace(rawLine)
    IN  IF HasPrefix(line, CommentPrefix)
        THEN LET comment == TrimSpace(TrimPrefix(line, CommentPrefix))
                 parts   == SplitN(comment, ":", 5)
                 off     == [st EXCEPT !.inSummary = FALSE]
             IN  IF comment = <<>> THEN off
                 ELSE IF Len(parts) = 5
                 THEN LET lineNum == Atoi(parts[2])
                      IN  IF ~lineNum.err
                          THEN [off EXCEPT !.positionedComments =
                                   Append(@, PositionedComment(parts[1], lineNum.val,
                                                               parts[3], parts[4], parts[5]))]
                          ELSE [off EXCEPT !.comments = Append(@, comment)]
                 ELSE [off EXCEPT !.comments = Append(@, comment)]
        ELSE IF st.inSummary /\ line # <<>>
        THEN [st EXCEPT !.summary = IF Len(@) > 0 THEN @ \o <<" ">> \o line ELSE line]
        ELSE st

RECURSIVE ParseFrom(_, _, _)
ParseFrom(lines, i, st) ==
    IF i > Len(lines) THEN st ELSE ParseFrom(lines, i + 1, ParseLine(st, lines[i]))

\* the models.CodeReview parseReview returns
parseReview(lines) ==
    LET st == ParseFrom(lines, 1, ParserInit)
    IN  [Summary |-> st.summary, Comments |-> st.comments,
         PositionedComments |-> st.positionedComments]

-----------------------------------------------------------------------------
(* path/filepath.Match (Go 1.16 and later, non-Windows), which                *)
(* shouldExcludePath calls.                                                *)

\* the characters of paths and patterns, in byte order
Alphabet == <<"*", "-", ".", "/", "0", "1", "2", "?", "[", "\\", "]", "^",
              "a", "b", "c", "f", "g", "o", "v", "x", "y">>

Ord(c) == CHOOSE i \in 1..Len(Alphabet) : Alphabet[i] = c

\* the zero rune a failed chunk match compares class ranges with
NoRune == ""

InRange(lo, r, hi) == r # NoRune /\ Ord(lo) <= Ord(r) /\ Ord(r) <= Ord(hi)

Contains(s, c) == \E i \in 1..Len(s) : s[i] = c

RECURSIVE ScanEnd(_, _, _)
ScanEnd(p, i, inrange) ==
    IF i > Len(p) THEN i
    ELSE IF p[i] = "\\" THEN ScanEnd(p, IF i < Len(p) THEN i + 2 ELSE i + 1, inrange)
    ELSE IF p[i] = "[" THEN ScanEnd(p, i + 1, TRUE)
    ELSE IF p[i] = "]" THEN ScanEnd(p, i + 1, FALSE)
    ELSE IF p[i] = "*" /\ ~inrange THEN i
    ELSE ScanEnd(p, i + 1, inrange)

RECURSIVE LeadingStars(_)
LeadingStars(p) == IF Len(p) > 0 /\ p[1] = "*" THEN 1 + LeadingStars(Tail(p)) ELSE 0

scanChunk(pattern) ==
    LET stars == LeadingStars(pattern)
        p     == SubSeq(pattern, stars + 1, Len(pattern))
        i     == ScanEnd(p, 1, FALSE)
    IN  [star |-> stars > 0, chunk |-> SubSeq(p, 1, i - 1), rest |-> SubSeq(p, i, Len(p))]

EscBad == [err |-> TRUE, r |-> NoRune, rest |-> <<>>]

getEsc(chunk) ==
    IF Len(chunk) = 0 \/ chunk[1] = "-" \/ chunk[1] = "]" THEN EscBad
    ELSE LET c == IF chunk[1] = "\\" THEN Tail(chunk) ELSE chunk
         IN  IF Len(c) = 0 THEN EscBad
             ELSE IF Len(c) = 1 THEN EscBad
             ELSE [err |-> FALSE, r |-> c[1], rest |-> Tail(c)]

\* the ranges of a character class, up to its closing bracket
RECURSIVE ClassRanges(_, _, _, _)
ClassRanges(chunk, r, match, nrange) ==
    IF Len(chunk) > 0 /\ chunk[1] = "]" /\ nrange > 0
    THEN [err |-> FALSE, match |-> match, rest |-> Tail(chunk)]
    ELSE LET lo == getEsc(chunk)
         IN  IF lo.err THEN [err |-> TRUE, match |-> FALSE, rest |-> <<>>]
             ELSE IF lo.rest[1] = "-"
             THEN LET hi == getEsc(Tail(lo.rest))
                  IN  IF hi.err THEN [err |-> TRUE, match |-> FALSE, rest |-> <<>>]
                      ELSE ClassRanges(hi.rest, r, match \/ InRange(lo.r, r, hi.r), nrange + 1)
             ELSE ClassRanges(lo.rest, r, match \/ InRange(lo.r, r, lo.r), nrange + 1)

ChunkBad == [rest |-> <<>>, ok |-> FALSE, err |-> TRUE]

RECURSIVE MatchChunkLoop(_, _, _)
MatchChunkLoop(chunk, s, wasFailed) ==
    IF Len(chunk) = 0
    THEN IF wasFailed THEN [rest |-> <<>>, ok |-> FALSE, err |-> FALSE]
         ELSE [rest |-> s, ok |-> TRUE, err |-> FALSE]
    ELSE LET failed == wasFailed \/ Len(s) = 0
             s1     == IF failed THEN s ELSE Tail(s)
         IN  IF chunk[1] = "["
             THEN LET r       == IF failed THEN NoRune ELSE s[1]
                      c1      == Tail(chunk)
                      negated == Len(c1) > 0 /\ c1[1] = "^"
                      c2      == IF negated THEN Tail(c1) ELSE c1
                      cls     == ClassRanges(c2, r, FALSE, 0)
                  IN  IF cls.err THEN ChunkBad
                      ELSE MatchChunkLoop(cls.rest, s1, failed \/ (cls.match = negated))
             ELSE IF chunk[1] = "?"
             THEN MatchChunkLoop(Tail(chunk), s1, failed \/ s[1] = "/")
             ELSE LET c1 == IF chunk[1] = "\\" THEN Tail(chunk) ELSE chunk
                  IN  IF Len(c1) = 0 THEN ChunkBad
                      ELSE MatchChunkLoop(Tail(c1), s1, failed \/ c1[1] # s[1])

matchChunk(chunk, s) == MatchChunkLoop(chunk, s, FALSE)

\* the loop that lets a star swallow i+1 bytes, never a separator
RECURSIVE StarSkip(_, _, _, _)
StarSkip(chunk, rest, name, i) ==
    IF i >= Len(name) \/ name[i + 1] = "/" THEN [kind |-> "none", rest |-> <<>>]
    ELSE LET m == matchChunk(chunk, SubSeq(name, i + 2, Len(name)))
         IN  IF m.ok
             THEN IF Len(rest) = 0 /\ Len(m.rest) > 0 THEN StarSkip(chunk, rest, name, i + 1)
                  ELSE [kind |-> "continue", rest |-> m.rest]
             ELSE IF m.err THEN [kind |-> "error", rest |-> <<>>]
             ELSE StarSkip(chunk, rest, name, i + 1)

\* whether the rest of the pattern holds a syntax error
RECURSIVE RestIsBad(_)
RestIsBad(pattern) ==
    IF Len(pattern) = 0 THEN FALSE
    ELSE LET sc == scanChunk(pattern)
         IN  matchChunk(sc.chunk, <<>>).err \/ RestIsBad(sc.rest)

RECURSIVE Match(_, _)
Match(pattern, name) ==
    IF Len(pattern) = 0 THEN [matched |-> Len(name) = 0, err |-> FALSE]
    ELSE LET sc == scanChunk(pattern)
         IN  IF sc.star /\ Len(sc.chunk) = 0
             THEN [matched |-> ~Contains(name, "/"), err |-> FALSE]
             ELSE LET m == matchChunk(sc.chunk, name)
                  IN  IF m.ok /\ (Len(m.rest) = 0 \/ Len(sc.rest) > 0)
                      THEN Match(sc.rest, m.rest)
                      ELSE IF m.err THEN [matched |-> FALSE, err |-> TRUE]
                      ELSE LET sk == IF sc.star THEN StarSkip(sc.chunk, sc.rest, name, 0)
                                     ELSE [kind |-> "none", rest |-> <<>>]
                           IN  IF sk.kind = "continue" THEN Match(sc.rest, sk.rest)
                               ELSE IF sk.kind = "error" THEN [matched |-> FALSE, err |-> TRUE]
                               ELSE [matched |-> FALSE, err |-> RestIsBad(sc.rest)]

-----------------------------------------------------------------------------
(* ReviewService.shouldExcludePath and filterExcludedChanges: the Path     *)
(* Filter.                                                                 *)

DirSuffix == <<"/", "*", "*">>

\* a shouldExcludePath whose directory rule compares the prefix without the separator
RECURSIVE ShouldExcludeFromNoSeparator(_, _, _)
ShouldExcludeFromNoSeparator(filePath, excludePaths, i) ==
    IF i > Len(excludePaths) THEN FALSE
    ELSE LET pattern == excludePaths[i]
             m       == Match(pattern, filePath)
             prefix  == SubSeq(pattern, 1, Len(pattern) - Len(DirSuffix))
         IN  IF m.err THEN ShouldExcludeFromNoSeparator(filePath, excludePaths, i + 1)
             ELSE IF m.matched THEN TRUE
             ELSE IF HasSuffix(pattern, DirSuffix) /\ HasPrefix(filePath, prefix)
             THEN TRUE
             ELSE ShouldExcludeFromNoSeparator(filePath, excludePaths, i + 1)

\* a shouldExcludePath that returns at the first invalid pattern
RECURSIVE ShouldExcludeFromStopsAtInvalid(_, _, _)
ShouldExcludeFromStopsAtInvalid(filePath, excludePaths, i) ==
    IF i > Len(excludePaths) THEN FALSE
    ELSE LET pattern == excludePaths[i]
             m       == Match(pattern, filePath)
             prefix  == SubSeq(pattern, 1, Len(pattern) - Len(DirSuffix))
         IN  IF m.err THEN FALSE
             ELSE IF m.matched THEN TRUE
             ELSE IF HasSuffix(pattern, DirSuffix)
                     /\ (HasPrefix(filePath, prefix \o <<"/">>) \/ filePath = prefix)
             THEN TRUE
             ELSE ShouldExcludeFromStopsAtInvalid(filePath, excludePaths, i + 1)

RECURSIVE ShouldExcludeFrom(_, _, _)
ShouldExcludeFrom(filePath, excludePaths, i) ==
    IF i > Len(excludePaths) THEN FALSE
    ELSE LET pattern == excludePaths[i]
             m       == Match(pattern, filePath)
             prefix  == SubSeq(pattern, 1, Len(pattern) - Len(DirSuffix))
         IN  IF m.err THEN ShouldExcludeFrom(filePath, excludePaths, i + 1)
             ELSE IF m.matched THEN TRUE
             ELSE IF HasSuffix(pattern, DirSuffix)
                     /\ (HasPrefix(filePath, prefix \o <<"/">>) \/ filePath = prefix)
             THEN TRUE
             ELSE ShouldExcludeFrom(filePath, excludePaths, i + 1)

shouldExcludePath(filePath, excludePaths) == ShouldExcludeFrom(filePath, excludePaths, 1)

\* a filter that always matches the new path
FilterPathAlwaysNew(change) == change.NewPath

\* the path of a change the filter matches
FilterPath(change) == IF change.NewPath = <<>> THEN change.OldPath ELSE change.NewPath

\* a filter that puts each kept change in front of those kept before
RECURSIVE FilterFromPrepends(_, _, _, _)
FilterFromPrepends(cs, excludePaths, i, acc) ==
    IF i > Len(cs) THEN acc
    ELSE LET change == cs[i]
         IN  FilterFromPrepends(cs, excludePaths, i + 1,
                 IF shouldExcludePath(FilterPath(change), excludePaths)
                 THEN [acc EXCEPT !.excludedFiles = Append(@, FilterPath(change))]
                 ELSE [acc EXCEPT !.filteredChanges = <<change>> \o @])

RECURSIVE FilterFrom(_, _, _, _)
FilterFrom(cs, excludePaths, i, acc) ==
    IF i > Len(cs) THEN acc
    ELSE LET change == cs[i]
         IN  FilterFrom(cs, excludePaths, i + 1,
                 IF shouldExcludePath(FilterPath(change), excludePaths)
                 THEN [acc EXCEPT !.excludedFiles = Append(@, FilterPath(change))]
                 ELSE [acc EXCEPT !.filteredChanges = Append(@, change)])

\* config.ExcludePaths is excludePaths; a nil config is the empty sequence
filterExcludedChanges(cs, excludePaths) ==
    IF Len(excludePaths) = 0 THEN [filteredChanges |-> cs, excludedFiles |-> <<>>]
    ELSE FilterFrom(cs, excludePaths, 1, [filteredChanges |-> <<>>, excludedFiles |-> <<>>])

-----------------------------------------------------------------------------
(* The response lines the model draws response texts from.                 *)

RespSummary      == <<" ", "S", " ">>
RespText         == <<"T">>
RespBlank        == <<" ">>
RespPositioned   == CommentPrefix \o <<"a", ":", "2", ":">> \o KindNew \o <<":", "H", ":", "x", ":", "y">>
RespBadNumber    == <<" ">> \o CommentPrefix \o <<"a", ":", "z", ":">> \o KindOld \o <<":", "L", ":", "x">>
RespFewFields    == CommentPrefix \o <<" ", "a", ":", "2">>
RespEmptyComment == CommentPrefix \o <<" ">>

ResponseLines ==
    {RespSummary, RespText, RespBlank, RespPositioned, RespBadNumber, RespFewFields,
     RespEmptyComment}

ResponseTexts == SeqsUpTo(ResponseLines, MaxReviewLines)

-----------------------------------------------------------------------------
(* What the variables of a part hold while another specification runs.     *)

DiffIdle ==
    /\ diff = <<>>
    /\ aPos = 0
    /\ aSt = AnnotatorInit
    /\ rTarget = NoTarget
    /\ rRet = NotFound

ParseIdle ==
    /\ reviewText = <<>>
    /\ pPos = 0
    /\ pSt = ParserInit

-----------------------------------------------------------------------------
(* The merge requests and model responses the review cycle is run on.      *)

PathA == <<"a">>
PathB == <<"b">>
PathV == <<"v", "/", "x">>

MRChange(oldPath, newPath, deleted, diffText) ==
    [OldPath |-> oldPath, NewPath |-> newPath, NewFile |-> FALSE, RenamedFile |-> FALSE,
     DeletedFile |-> deleted, Diff |-> diffText]

\* file a: position 1 is old line 10, position 2 is new line 20
ChangeA  == MRChange(PathA, PathA, FALSE, <<HunkHeader, RemovedLine, AddedLine>>)
\* file a after another push: position 1 is new line 5, position 2 is new line 6
ChangeA2 == MRChange(PathA, PathA, FALSE, <<HunkNoCount, AddedLine, AddedLine>>)
\* a file under v/
ChangeV  == MRChange(PathV, PathV, FALSE, <<HunkNoCount, AddedLine>>)
\* a deleted file
ChangeB  == MRChange(PathB, PathB, TRUE, <<HunkNoCount, RemovedLine>>)

\* the diffs a merge request may hold: one Change per file
ChangeSets ==
    {<<>>, <<ChangeA>>, <<ChangeA2>>, <<ChangeV>>, <<ChangeA, ChangeV>>, <<ChangeB, ChangeA>>}

SevLow == <<"L", "O", "W">>

RespPosA2New  == RespPositioned
RespPosV1New  == CommentPrefix \o PathV \o <<":", "1", ":">> \o KindNew \o <<":">> \o SevLow \o <<":", "x">>
RespPosA9Old  == CommentPrefix \o PathA \o <<":", "9", ":">> \o KindOld \o <<":">> \o SevLow \o <<":", "x">>
RespPosB1Old  == CommentPrefix \o PathB \o <<":", "1", ":">> \o KindOld \o <<":", "H", ":", "x">>

\* what the model may answer
ModelResponses ==
    {<<RespSummary, RespPosA2New, RespFewFields>>,
     <<RespPosA9Old, RespPosA2New>>,
     <<RespPosA2New, RespPosV1New, RespSummary>>,
     <<RespSummary, RespFewFields, RespBadNumber>>,
     <<RespPosB1Old>>,
     <<RespSummary>>,
     <<RespBlank>>}

\* the rule sets GetWhyThoConfig may return
VendorPattern == <<"v", "/", "*", "*">>
AnyFilePattern == <<"*">>

ExcludePathSets == {<<>>, <<VendorPattern>>, <<AnyFilePattern, VendorPattern>>}

\* the texts GetReviewGuidance may return
GuidanceTexts == {<<>>, <<"G">>}

-----------------------------------------------------------------------------
(* ReviewService.ReviewCode.                                               *)

RECURSIVE Join(_, _)
Join(strs, sep) ==
    IF Len(strs) = 0 THEN <<>>
    ELSE IF Len(strs) = 1 THEN strs[1]
    ELSE strs[1] \o sep \o Join(Tail(strs), sep)

AllExcludedText ==
    <<"All files in this merge request are excluded from review based on the .whytho/config.yaml configuration.">>

\* a short-circuit that returns its notice as a general comment, with no summary
AllExcludedReviewAsComment(excludedFiles) ==
    [Summary |-> <<>>,
     Comments |-> <<AllExcludedText \o <<" Excluded files: ">> \o Join(excludedFiles, <<",", " ">>)>>,
     PositionedComments |-> <<>>]

\* the review returned when the filter keeps no change
AllExcludedReview(excludedFiles) ==
    [Summary |-> IF Len(excludedFiles) > 0
                 THEN AllExcludedText \o <<" Excluded files: ">> \o Join(excludedFiles, <<",", " ">>)
                 ELSE AllExcludedText,
     Comments |-> <<>>,
     PositionedComments |-> <<>>]

\* the "## File: ..." sections of the prompt: one per kept change that is not deleted
\* file sections that annotate the changes flagged deleted too
RECURSIVE FileSectionsIncludesDeleted(_)
FileSectionsIncludesDeleted(filteredChanges) ==
    IF Len(filteredChanges) = 0 THEN <<>>
    ELSE LET change == filteredChanges[1]
         IN  <<[File |-> change.NewPath, NewFile |-> change.NewFile,
                RenamedFrom |-> IF change.RenamedFile THEN change.OldPath ELSE <<>>,
                processedDiff |-> addLineNumbersToDiff(change.Diff)]>>
             \o FileSectionsIncludesDeleted(Tail(filteredChanges))

\* file sections whose annotator keeps its counters from one change to the next
RECURSIVE SectionsCarrying(_, _)
SectionsCarrying(filteredChanges, st) ==
    IF Len(filteredChanges) = 0 THEN <<>>
    ELSE LET change == filteredChanges[1]
             after  == AnnotateFrom(change.Diff, 1, [st EXCEPT !.result = <<>>])
         IN  IF change.DeletedFile THEN SectionsCarrying(Tail(filteredChanges), st)
             ELSE <<[File |-> change.NewPath, NewFile |-> change.NewFile,
                     RenamedFrom |-> IF change.RenamedFile THEN change.OldPath ELSE <<>>,
                     processedDiff |-> after.result]>>
                  \o SectionsCarrying(Tail(filteredChanges), after)

FileSectionsSharedCounters(filteredChanges) == SectionsCarrying(filteredChanges, AnnotatorInit)

RECURSIVE FileSections(_)
FileSections(filteredChanges) ==
    IF Len(filteredChanges) = 0 THEN <<>>
    ELSE LET change == filteredChanges[1]
         IN  IF change.DeletedFile THEN FileSections(Tail(filteredChanges))
             ELSE <<[File |-> change.NewPath, NewFile |-> change.NewFile,
                     RenamedFrom |-> IF change.RenamedFile THEN change.OldPath ELSE <<>>,
                     processedDiff |-> addLineNumbersToDiff(change.Diff)]>>
                  \o FileSections(Tail(filteredChanges))

BuildPrompt(filtered, guidance) ==
    [guidance |-> guidance, excludedFiles |-> filtered.excludedFiles,
     sections |-> FileSections(filtered.filteredChanges)]

NoPrompt == [guidance |-> <<>>, excludedFiles |-> <<>>, sections |-> <<>>]

NoReview == [Summary |-> <<>>, Comments |-> <<>>, PositionedComments |-> <<>>]

\* a ReviewCode that does not look at len(resp.Candidates): no candidates, empty text
GenerateResultIgnoresNoCandidates(modelOutcome, reviewTxt) ==
    IF modelOutcome = "error" THEN [err |-> TRUE, review |-> NoReview]
    ELSE IF modelOutcome = "no candidates" THEN [err |-> FALSE, review |-> parseReview(<<EmptyLine>>)]
    ELSE [err |-> FALSE, review |-> parseReview(reviewTxt)]

\* what ReviewCode returns after GenerateContent ended with modelOutcome
GenerateResult(modelOutcome, reviewTxt) ==
    IF modelOutcome = "error" THEN [err |-> TRUE, review |-> NoReview]
    ELSE IF modelOutcome = "no candidates" THEN [err |-> TRUE, review |-> NoReview]
    ELSE [err |-> FALSE, review |-> parseReview(reviewTxt)]

-----------------------------------------------------------------------------
(* GitLabService: posting.                                                 *)

SevCritical == <<"C", "R", "I", "T", "I", "C", "A", "L">>
SevHigh     == <<"H", "I", "G", "H">>
SevMedium   == <<"M", "E", "D", "I", "U", "M">>

formatSeverity(severity) ==
    IF severity = SevCritical THEN <<"![Critical]">>
    ELSE IF severity = SevHigh THEN <<"![High]">>
    ELSE IF severity = SevMedium THEN <<"![Medium]">>
    ELSE IF severity = SevLow THEN <<"![Low]">>
    ELSE <<"**">> \o severity \o <<"**">>

\* fmt.Sprintf("**File: %s (Line %d)** - %s\n\n%s", FilePath, LineNumber, severity, Comment)
FallbackBody(positionedComment) ==
    [fmt |-> "**File: %s (Line %d)** - %s\n\n%s",
     FilePath |-> positionedComment.FilePath,
     LineNumber |-> positionedComment.LineNumber,
     severityFormatted |-> formatSeverity(positionedComment.Severity),
     Comment |-> positionedComment.Comment]

\* a general comment's body, posted as it is
PlainBody(comment) == [fmt |-> "%s", text |-> comment]

\* fmt.Sprintf("## AI Code Review Summary\n\n%s", review.Summary)
SummaryBody(summary) == [fmt |-> "## AI Code Review Summary\n\n%s", text |-> summary]

\* the form postPositionedCommentHTTP sends; an absent field is <<>>
PositionForm(actualComment, headSha) ==
    [body |-> formatSeverity(actualComment.Severity) \o <<"\n\n">> \o actualComment.Comment,
     head_sha |-> headSha,
     new_path |-> actualComment.FilePath,
     old_path |-> actualComment.FilePath,
     new_line |-> IF actualComment.LineType = KindOld THEN <<>> ELSE <<actualComment.LineNumber>>,
     old_line |-> IF actualComment.LineType = KindNew THEN <<>> ELSE <<actualComment.LineNumber>>]

\* the first diff, if any, whose new or old path is the comment's file
RECURSIVE FindDiff(_, _, _)
FindDiff(diffs, filePath, i) ==
    IF i > Len(diffs) THEN 0
    ELSE IF diffs[i].NewPath = filePath \/ diffs[i].OldPath = filePath THEN i
    ELSE FindDiff(diffs, filePath, i + 1)

\* convertDiffLineToActualLine, given what ListMergeRequestDiffs returned
convertDiffLineToActualLine(listOk, diffs, positionedComment) ==
    IF ~listOk THEN [err |-> TRUE, line |-> 0, diffUsed |-> <<>>, listed |-> FALSE]
    ELSE LET i == FindDiff(diffs, positionedComment.FilePath, 1)
         IN  IF i = 0 THEN [err |-> TRUE, line |-> 0, diffUsed |-> <<>>, listed |-> TRUE]
             ELSE LET r == findActualLineNumber(diffs[i].Diff, positionedComment)
                  IN  [err |-> r.err, line |-> r.line, diffUsed |-> diffs[i].Diff,
                       listed |-> TRUE]

\* log entries
PostNote(for, body, ok) == [call |-> "PostMRComment", for |-> for, body |-> body, ok |-> ok]

PostDiscussion(for, form, ok) ==
    [call |-> "postPositionedCommentHTTP", for |-> for, form |-> form, ok |-> ok]

Resolution(for, positionedComment, r) ==
    [call |-> "convertDiffLineToActualLine", for |-> for,
     positionedComment |-> positionedComment, err |-> r.err, line |-> r.line,
     diffUsed |-> r.diffUsed, listed |-> r.listed]

Details(for, ok) == [call |-> "GetMRDetails", for |-> for, ok |-> ok]

Generate(modelOutcome) == [call |-> "GenerateContent", for |-> <<"review", 0>>, outcome |-> modelOutcome]

\* a PostPositionedMRComment that returns the resolver's error instead of falling back
PostPositionedDropsUnresolved(i, positionedComment, detailsOk, listOk, diffs, headSha, discussionOk, noteOk) ==
    LET for == <<"positioned", i>>
        r   == convertDiffLineToActualLine(listOk, diffs, positionedComment)
        actualComment == [positionedComment EXCEPT !.LineNumber = r.line]
    IN  IF ~detailsOk THEN <<Details(for, FALSE)>>
        ELSE IF r.err
        THEN <<Details(for, TRUE), Resolution(for, positionedComment, r)>>
        ELSE IF ~discussionOk
        THEN <<Details(for, TRUE), Resolution(for, positionedComment, r),
               PostDiscussion(for, PositionForm(actualComment, headSha), FALSE),
               PostNote(for, FallbackBody(positionedComment), noteOk)>>
        ELSE <<Details(for, TRUE), Resolution(for, positionedComment, r),
               PostDiscussion(for, PositionForm(actualComment, headSha), TRUE)>>

\* what PostPositionedMRComment does for comment number i, given how its calls end
\* a PostPositionedMRComment whose fallback body carries the resolved line number
PostPositionedFallbackUsesResolved(i, positionedComment, detailsOk, listOk, diffs, headSha, discussionOk, noteOk) ==
    LET for == <<"positioned", i>>
        r   == convertDiffLineToActualLine(listOk, diffs, positionedComment)
        actualComment == [positionedComment EXCEPT !.LineNumber = r.line]
    IN  IF ~detailsOk THEN <<Details(for, FALSE)>>
        ELSE IF r.err
        THEN <<Details(for, TRUE), Resolution(for, positionedComment, r),
               PostNote(for, FallbackBody(positionedComment), noteOk)>>
        ELSE IF ~discussionOk
        THEN <<Details(for, TRUE), Resolution(for, positionedComment, r),
               PostDiscussion(for, PositionForm(actualComment, headSha), FALSE),
               PostNote(for, FallbackBody(actualComment), noteOk)>>
        ELSE <<Details(for, TRUE), Resolution(for, positionedComment, r),
               PostDiscussion(for, PositionForm(actualComment, headSha), TRUE)>>

PostPositionedMRComment(i, positionedComment, detailsOk, listOk, diffs, headSha, discussionOk, noteOk) ==
    LET for == <<"positioned", i>>
        r   == convertDiffLineToActualLine(listOk, diffs, positionedComment)
        actualComment == [positionedComment EXCEPT !.LineNumber = r.line]
    IN  IF ~detailsOk THEN <<Details(for, FALSE)>>
        ELSE IF r.err
        THEN <<Details(for, TRUE), Resolution(for, positionedComment, r),
               PostNote(for, FallbackBody(positionedComment), noteOk)>>
        ELSE IF ~discussionOk
        THEN <<Details(for, TRUE), Resolution(for, positionedComment, r),
               PostDiscussion(for, PositionForm(actualComment, headSha), FALSE),
               PostNote(for, FallbackBody(positionedComment), noteOk)>>
        ELSE <<Details(for, TRUE), Resolution(for, positionedComment, r),
               PostDiscussion(for, PositionForm(actualComment, headSha), TRUE)>>

-----------------------------------------------------------------------------
(* WebhookHandler.HandleWebhook: requests and responses.                   *)

NoResponse == [status |-> 0, message |-> "none"]

JSON(status, message) == [status |-> status, message |-> message]

NoRequest == [readOk |-> FALSE, token |-> [kind |-> "plain", key |-> "", body |-> <<>>], event |-> "none", parseOk |-> FALSE, action |-> "none", oldrev |-> "none"]

\* no request has come: the handler is not running
HookIdle ==
    /\ webhookSecret = ""
    /\ request = NoRequest
    /\ hpc = "idle"
    /\ response = NoResponse

\* the values the result variables hold before the call
ConfigNotCalled == [err |-> FALSE, ExcludePaths |-> <<>>, from |-> "not called"]

VerdictNotCalled == [called |-> FALSE, excluded |-> FALSE]

FilterNotCalled == [called |-> FALSE, filteredChanges |-> <<>>, excludedFiles |-> <<>>]

\* the target branch holds no .whytho/config.yaml
NoFile == [exists |-> FALSE, lines |-> <<>>]

\* GetWhyThoConfig has not been called
ConfigIdle ==
    /\ cfgChanges = <<>>
    /\ cfgBranch = NoFile
    /\ cfgRet = ConfigNotCalled

\* the path filter has not been called
FilterIdle ==
    /\ fPath = <<>>
    /\ fPatterns = <<>>
    /\ fVerdict = VerdictNotCalled
    /\ fChanges = <<>>
    /\ fRet = FilterNotCalled

\* no request has been served and no goroutine runs
ServeIdle ==
    /\ served = <<>>
    /\ cyc = <<>>
    /\ proc = "running"

\* a header value that is the text s as it stands
Plain(s) == [kind |-> "plain", key |-> s, body |-> <<>>]

\* hex.EncodeToString of the HMAC-SHA256 of body under key: 64 hexadecimal digits
\* fixed by key and body, taken to collide with no other header value
HexHmacSha256(key, body) == [kind |-> "hex-hmac-sha256", key |-> key, body |-> body]

SecretValue == "s3cret"

OtherValue == "other"

Secrets == {"", SecretValue}

\* the bytes of the request body, as far as the handler reads them
Body(parseOk, action, oldrev) == <<parseOk, action, oldrev>>

Events == {"Merge Request Hook", "Push Hook"}

Actions == {"open", "reopen", "update", "close"}

OldRevs == {"", "abc"}

\* X-Gitlab-Token values: absent, the secret token GitLab was configured with sent
\* as it stands, and signatures of the body under the right and under another key
Tokens(body) == {Plain(""), Plain(SecretValue), HexHmacSha256(SecretValue, body), HexHmacSha256(OtherValue, body)}

Requests ==
    UNION {{[readOk |-> readOk, token |-> token, event |-> event, parseOk |-> parseOk, action |-> action, oldrev |-> oldrev] :
               readOk \in BOOLEAN, event \in Events, token \in Tokens(Body(parseOk, action, oldrev))} :
           parseOk \in BOOLEAN, action \in Actions, oldrev \in OldRevs}

-----------------------------------------------------------------------------
(* WebhookHandler.processMergeRequest: the review cycle.                   *)

\* a processMergeRequest that posts the summary before the general comments and returns
NextStopSummaryFirst(phase, i, rv) ==
    IF phase = "positioned" /\ i <= Len(rv.PositionedComments) THEN [pc |-> "positioned", idx |-> i]
    ELSE IF phase = "positioned" /\ rv.Summary # <<>> THEN [pc |-> "summary", idx |-> 0]
    ELSE IF phase = "positioned" /\ Len(rv.Comments) > 0 THEN [pc |-> "general", idx |-> 1]
    ELSE IF phase = "general" /\ i <= Len(rv.Comments) THEN [pc |-> "general", idx |-> i]
    ELSE [pc |-> "done", idx |-> 0]

\* the next loop iteration to run, from loop `phase` at index i on
NextStop(phase, i, rv) ==
    IF phase = "positioned" /\ i <= Len(rv.PositionedComments) THEN [pc |-> "positioned", idx |-> i]
    ELSE IF phase = "positioned" /\ Len(rv.Comments) > 0 THEN [pc |-> "general", idx |-> 1]
    ELSE IF phase = "general" /\ i <= Len(rv.Comments) THEN [pc |-> "general", idx |-> i]
    ELSE IF phase \in {"positioned", "general"} /\ rv.Summary # <<>> THEN [pc |-> "summary", idx |-> 0]
    ELSE [pc |-> "done", idx |-> 0]

CycleLocals ==
    /\ changes = <<>>
    /\ prompt = NoPrompt
    /\ review = NoReview
    /\ idx = 0
    /\ log = <<>>
    /\ modelCalls = 0

CycleInit ==
    /\ pc = "fetch"
    /\ CycleLocals

CycleIdle ==
    /\ serverDiffs = <<>>
    /\ serverRev = 0
    /\ CycleInit

Init ==
    /\ serverDiffs \in ChangeSets
    /\ serverRev = 0
    /\ CycleInit
    /\ DiffIdle
    /\ ParseIdle
    /\ HookIdle
    /\ ServeIdle
    /\ ConfigIdle
    /\ FilterIdle

\* someone pushes to the merge request: GitLab now holds other diffs
Push ==
    /\ serverRev < MaxPushes
    /\ pc \notin {"done", "failed"}
    /\ \E cs \in ChangeSets : cs # serverDiffs /\ serverDiffs' = cs
    /\ serverRev' = serverRev + 1
    /\ UNCHANGED <<pc, changes, prompt, review, idx, log, modelCalls, diffVars, parseVars, hookVars, serveVars, pureVars>>

\* GetMRChanges and the two early returns after it
FetchChanges ==
    /\ pc = "fetch"
    /\ \E ok \in BOOLEAN :
          IF ok /\ Len(serverDiffs) > 0
          THEN changes' = serverDiffs /\ pc' = "review"
          ELSE changes' = <<>> /\ pc' = IF ok THEN "done" ELSE "failed"
    /\ UNCHANGED <<serverDiffs, serverRev, prompt, review, idx, log, modelCalls, diffVars, parseVars, hookVars, serveVars, pureVars>>

\* ReviewCode, and processMergeRequest's return when it fails
ReviewCode ==
    /\ pc = "review"
    /\ \E configErr \in BOOLEAN, excludePaths \in ExcludePathSets,
          guidanceErr \in BOOLEAN, guidanceText \in GuidanceTexts,
          modelOutcome \in {"error", "no candidates", "text"}, reviewTxt \in ModelResponses :
          LET filtered == filterExcludedChanges(changes, IF configErr THEN <<>> ELSE excludePaths)
              guidance == IF guidanceErr THEN <<>> ELSE guidanceText
              result   == GenerateResult(modelOutcome, reviewTxt)
          IN  IF Len(filtered.filteredChanges) = 0
              THEN /\ review' = AllExcludedReview(filtered.excludedFiles)
                   /\ prompt' = NoPrompt
                   /\ modelCalls' = modelCalls
                   /\ log' = log
                   /\ pc' = NextStop("positioned", 1, review').pc
                   /\ idx' = NextStop("positioned", 1, review').idx
              ELSE /\ prompt' = BuildPrompt(filtered, guidance)
                   /\ modelCalls' = modelCalls + 1
                   /\ log' = Append(log, Generate(modelOutcome))
                   /\ review' = result.review
                   /\ pc' = IF result.err THEN "failed"
                            ELSE NextStop("positioned", 1, review').pc
                   /\ idx' = IF result.err THEN 0
                             ELSE NextStop("positioned", 1, review').idx
    /\ UNCHANGED <<serverDiffs, serverRev, changes, diffVars, parseVars, hookVars, serveVars, pureVars>>

\* one iteration of the loop over review.PositionedComments
PostPositioned ==
    /\ pc = "positioned"
    /\ \E detailsOk, listOk, discussionOk, noteOk \in BOOLEAN :
          log' = log \o PostPositionedMRComment(idx, review.PositionedComments[idx], detailsOk,
                                                listOk, serverDiffs, serverRev,
                                                discussionOk, noteOk)
    /\ pc' = NextStop("positioned", idx + 1, review).pc
    /\ idx' = NextStop("positioned", idx + 1, review).idx
    /\ UNCHANGED <<serverDiffs, serverRev, changes, prompt, review, modelCalls, diffVars, parseVars, hookVars, serveVars, pureVars>>

\* a loop over review.Comments that returns at the first failed post
PostGeneralStopsOnFailure ==
    /\ pc = "general"
    /\ \E ok \in BOOLEAN :
          /\ log' = Append(log, PostNote(<<"general", idx>>, PlainBody(review.Comments[idx]), ok))
          /\ pc' = IF ok THEN NextStop("general", idx + 1, review).pc ELSE "done"
          /\ idx' = IF ok THEN NextStop("general", idx + 1, review).idx ELSE 0
    /\ UNCHANGED <<serverDiffs, serverRev, changes, prompt, review, modelCalls, diffVars, parseVars, hookVars, serveVars, pureVars>>

\* one iteration of the loop over review.Comments
PostGeneral ==
    /\ pc = "general"
    /\ \E ok \in BOOLEAN :
          log' = Append(log, PostNote(<<"general", idx>>, PlainBody(review.Comments[idx]), ok))
    /\ pc' = NextStop("general", idx + 1, review).pc
    /\ idx' = NextStop("general", idx + 1, review).idx
    /\ UNCHANGED <<serverDiffs, serverRev, changes, prompt, review, modelCalls, diffVars, parseVars, hookVars, serveVars, pureVars>>

\* the summary comment, posted when review.Summary is not empty
PostSummary ==
    /\ pc = "summary"
    /\ \E ok \in BOOLEAN :
          log' = Append(log, PostNote(<<"summary", 0>>, SummaryBody(review.Summary), ok))
    /\ pc' = "done"
    /\ idx' = 0
    /\ UNCHANGED <<serverDiffs, serverRev, changes, prompt, review, modelCalls, diffVars, parseVars, hookVars, serveVars, pureVars>>

Next == Push \/ FetchChanges \/ ReviewCode \/ PostPositioned \/ PostGeneral \/ PostSummary

Spec == Init /\ [][Next]_vars

-----------------------------------------------------------------------------
(* SpecDiff: the annotator run line by line over a diff text, then the     *)
(* resolver applied to a target position and kind.                         *)

InitDiff ==
    /\ diff \in DiffTexts \cup MultiHunkDiffs
    /\ aPos = 0
    /\ aSt = AnnotatorInit
    /\ rTarget = NoTarget
    /\ rRet = NotFound
    /\ ParseIdle
    /\ CycleIdle
    /\ HookIdle
    /\ ServeIdle
    /\ ConfigIdle
    /\ FilterIdle

AnnotateStep ==
    /\ aPos < Len(diff)
    /\ aSt' = AnnotateLine(aSt, diff[aPos + 1])
    /\ aPos' = aPos + 1
    /\ UNCHANGED <<diff, rTarget, rRet, parseVars, cycleVars, hookVars, serveVars, pureVars>>

Resolve ==
    /\ aPos = Len(diff)
    /\ rTarget = NoTarget
    /\ \E p \in 0..(Len(diff) + 1), k \in LineTypes :
          /\ rTarget' = [LineNumber |-> p, LineType |-> k]
          /\ rRet' = findActualLineNumber(diff, rTarget')
    /\ UNCHANGED <<diff, aPos, aSt, parseVars, cycleVars, hookVars, serveVars, pureVars>>

NextDiff == AnnotateStep \/ Resolve

SpecDiff == InitDiff /\ [][NextDiff]_vars

-----------------------------------------------------------------------------
(* SpecParse: the parser run line by line over a response text.            *)

InitParse ==
    /\ reviewText \in ResponseTexts
    /\ pPos = 0
    /\ pSt = ParserInit
    /\ DiffIdle
    /\ CycleIdle
    /\ HookIdle
    /\ ServeIdle
    /\ ConfigIdle
    /\ FilterIdle

ParseStep ==
    /\ pPos < Len(reviewText)
    /\ pSt' = ParseLine(pSt, reviewText[pPos + 1])
    /\ pPos' = pPos + 1
    /\ UNCHANGED <<reviewText, diffVars, cycleVars, hookVars, serveVars, pureVars>>

NextParse == ParseStep

SpecParse == InitParse /\ [][NextParse]_vars

-----------------------------------------------------------------------------
(* SpecHook: HandleWebhook serves one request; the review cycle it starts  *)
(* runs as a goroutine beside it.                                          *)

\* h.verifySignature, with h.webhookSecret as its first argument
verifySignature(secret, body, signature) ==
    IF secret = "" THEN TRUE
    ELSE signature = HexHmacSha256(secret, body)

\* a HandleWebhook without the oldrev check on update actions
EarlyReturnNoOldRevCheck(secret, req) ==
    IF ~req.readOk THEN JSON(400, "Failed to read request body")
    ELSE IF secret # "" /\ ~verifySignature(secret, Body(req.parseOk, req.action, req.oldrev), req.token)
    THEN JSON(401, "Invalid signature")
    ELSE IF req.event # "Merge Request Hook" THEN JSON(200, "Event ignored")
    ELSE IF ~req.parseOk THEN JSON(400, "Failed to parse webhook")
    ELSE IF req.action \notin {"open", "reopen", "update"} THEN JSON(200, "Action ignored")
    ELSE NoResponse

\* the response HandleWebhook returns early with, or NoResponse when it goes on to
\* start processMergeRequest
EarlyReturn(secret, req) ==
    IF ~req.readOk THEN JSON(400, "Failed to read request body")
    ELSE IF secret # "" /\ ~verifySignature(secret, Body(req.parseOk, req.action, req.oldrev), req.token)
    THEN JSON(401, "Invalid signature")
    ELSE IF req.event # "Merge Request Hook" THEN JSON(200, "Event ignored")
    ELSE IF ~req.parseOk THEN JSON(400, "Failed to parse webhook")
    ELSE IF req.action \notin {"open", "reopen", "update"} THEN JSON(200, "Action ignored")
    ELSE IF req.action = "update" /\ req.oldrev = "" THEN JSON(200, "No new commits, review skipped")
    ELSE NoResponse

HookChangeSets == {<<>>, <<ChangeA>>}

InitHook ==
    /\ webhookSecret \in Secrets
    /\ request \in Requests
    /\ hpc = "received"
    /\ response = NoResponse
    /\ serverDiffs \in HookChangeSets
    /\ serverRev = 0
    /\ pc = "idle"
    /\ CycleLocals
    /\ DiffIdle
    /\ ParseIdle
    /\ ServeIdle
    /\ ConfigIdle
    /\ FilterIdle

\* HandleWebhook up to its early return, or up to and including
\* `go h.processMergeRequest(&webhook)`
HandleWebhook ==
    /\ hpc = "received"
    /\ LET early == EarlyReturn(webhookSecret, request)
       IN  IF early # NoResponse
           THEN /\ response' = early
                /\ hpc' = "responded"
                /\ pc' = pc
           ELSE /\ response' = response
                /\ hpc' = "spawned"
                /\ pc' = "fetch"
    /\ UNCHANGED <<webhookSecret, request, serverDiffs, serverRev, changes, prompt, review, idx, log, modelCalls, diffVars, parseVars, serveVars, pureVars>>

\* a handler that answers once the cycle has ended, and with its outcome
AcknowledgeAfterCycle ==
    /\ hpc = "spawned"
    /\ pc \in {"done", "failed"}
    /\ response' = IF pc = "done" THEN JSON(200, "Webhook received") ELSE JSON(500, "Review failed")
    /\ hpc' = "responded"
    /\ UNCHANGED <<webhookSecret, request, cycleVars, diffVars, parseVars, serveVars, pureVars>>

\* c.JSON(http.StatusOK, gin.H{"message": "Webhook received"}) and the return
Acknowledge ==
    /\ hpc = "spawned"
    /\ response' = JSON(200, "Webhook received")
    /\ hpc' = "responded"
    /\ UNCHANGED <<webhookSecret, request, cycleVars, diffVars, parseVars, serveVars, pureVars>>

\* the handler's steps, and the steps of the goroutine running processMergeRequest
NextHook == HandleWebhook \/ Acknowledge \/ FetchChanges \/ ReviewCode \/ PostPositioned \/ PostGeneral \/ PostSummary

SpecHook == InitHook /\ [][NextHook]_vars

\* the handler's goroutine is scheduled; nothing is assumed of the cycle's
SpecHookLive == SpecHook /\ WF_vars(Acknowledge)

-----------------------------------------------------------------------------
(* SpecServe: the server handles a few requests; every review cycle they   *)
(* start is a goroutine of its own, and the goroutines' steps interleave.  *)
(* GitLab holds two merge requests. Of the calls a cycle makes, the fetch, *)
(* the model call and the positioned post may fail here.                   *)

MaxEvents == 2

MergeRequests == {1, 2}

\* the diffs GitLab holds for merge request m
MRDiffs(m) == IF m = 1 THEN <<ChangeA>> ELSE <<ChangeA2, ChangeV>>

\* the head commit of merge request m, as GetMRDetails reports it
HeadSha(m) == m

\* merge-request events without a token: updated by a push, updated otherwise
ServeRequests ==
    {r \in Requests : /\ r.readOk /\ r.parseOk
                      /\ r.token = Plain("")
                      /\ r.event = "Merge Request Hook"
                      /\ r.action = "update"}

ServeExcludePaths == {<<>>, <<AnyFilePattern>>}

ServeResponses == {<<RespSummary, RespPosA2New, RespFewFields>>}

NoInputs == [excludePaths |-> <<>>, modelOutcome |-> "none", reviewTxt |-> <<>>]

\* the locals of processMergeRequest as `go` starts it for event number e
NewCycle(e, m) ==
    [event |-> e, mr |-> m, pc |-> "fetch", idx |-> 0, changes |-> <<>>,
     inputs |-> NoInputs, review |-> NoReview, log |-> <<>>]

\* a handler that starts no cycle while one is running for the same merge request
SpawnUnlessRunning(cs, e, m) ==
    IF \E k \in 1..Len(cs) : cs[k].mr = m /\ cs[k].pc \notin {"done", "failed"}
    THEN cs
    ELSE Append(cs, NewCycle(e, m))

\* go h.processMergeRequest(&webhook)
Spawn(cs, e, m) == Append(cs, NewCycle(e, m))

\* a handler keeping the merge request being processed in a field all cycles share
TargetOfLatest(cs, c) == cs[Len(cs)].mr

\* projectID, mrIID: the locals every GitLab call of cycle c is given
Target(cs, c) == cs[c].mr

\* the calls in entries, each with the merge request it was sent for
SentFor(m, entries) == [k \in 1..Len(entries) |-> [mr |-> m, sent |-> entries[k]]]

InitServe ==
    /\ served = <<>>
    /\ cyc = <<>>
    /\ proc = "running"
    /\ DiffIdle
    /\ ParseIdle
    /\ CycleIdle
    /\ HookIdle
    /\ ConfigIdle
    /\ FilterIdle

\* HandleWebhook, from reading the request to its response
Serve ==
    /\ proc = "running"
    /\ Len(served) < MaxEvents
    /\ \E req \in ServeRequests, m \in MergeRequests :
          LET early == EarlyReturn(webhookSecret, req)
              e     == Len(served) + 1
          IN  /\ served' = Append(served, [request |-> req, mr |-> m,
                                           response |-> IF early = NoResponse
                                                        THEN JSON(200, "Webhook received")
                                                        ELSE early])
              /\ cyc' = IF early = NoResponse THEN Spawn(cyc, e, m) ELSE cyc
    /\ UNCHANGED <<proc, diffVars, parseVars, cycleVars, hookVars, pureVars>>

\* GetMRChanges and the two early returns after it, in cycle c
CycleFetch ==
    \E c \in 1..Len(cyc) :
        /\ proc # "exited"
        /\ cyc[c].pc = "fetch"
        /\ \E ok \in BOOLEAN :
              LET got == MRDiffs(Target(cyc, c))
              IN  cyc' = [cyc EXCEPT ![c] =
                            IF ok /\ Len(got) > 0
                            THEN [cyc[c] EXCEPT !.changes = got, !.pc = "review"]
                            ELSE [cyc[c] EXCEPT !.pc = IF ok THEN "done" ELSE "failed"]]
        /\ UNCHANGED <<served, proc, diffVars, parseVars, cycleVars, hookVars, pureVars>>

\* what ReviewCode makes of changes under the rule set and the model's answer
Reviewed(cs, excludePaths, modelOutcome, reviewTxt) ==
    LET filtered == filterExcludedChanges(cs, excludePaths)
    IN  IF Len(filtered.filteredChanges) = 0
        THEN [err |-> FALSE, called |-> FALSE, review |-> AllExcludedReview(filtered.excludedFiles)]
        ELSE [err |-> GenerateResult(modelOutcome, reviewTxt).err, called |-> TRUE,
              review |-> GenerateResult(modelOutcome, reviewTxt).review]

\* ReviewCode in cycle c, and processMergeRequest's return when it fails
CycleReview ==
    \E c \in 1..Len(cyc) :
        /\ proc # "exited"
        /\ cyc[c].pc = "review"
        /\ \E excludePaths \in ServeExcludePaths, modelOutcome \in {"error", "text"}, reviewTxt \in ServeResponses :
              \E r \in {Reviewed(cyc[c].changes, excludePaths, modelOutcome, reviewTxt)} :
                 \E next \in {NextStop("positioned", 1, r.review)} :
                    cyc' = [cyc EXCEPT ![c] =
                              [event |-> cyc[c].event, mr |-> cyc[c].mr, changes |-> cyc[c].changes,
                               inputs |-> [excludePaths |-> excludePaths,
                                           modelOutcome |-> IF r.called THEN modelOutcome ELSE "none",
                                           reviewTxt |-> IF r.called /\ ~r.err THEN reviewTxt ELSE <<>>],
                               review |-> r.review,
                               log |-> IF r.called
                                       THEN Append(cyc[c].log, [mr |-> 0, sent |-> Generate(modelOutcome)])
                                       ELSE cyc[c].log,
                               pc |-> IF r.err THEN "failed" ELSE next.pc,
                               idx |-> IF r.err THEN 0 ELSE next.idx]]
        /\ UNCHANGED <<served, proc, diffVars, parseVars, cycleVars, hookVars, pureVars>>

\* what one iteration of the posting loop cycle cy stands in sends for merge request m
PostStep(cy, m, discussionOk) ==
    IF cy.pc = "positioned"
    THEN PostPositionedMRComment(cy.idx, cy.review.PositionedComments[cy.idx], TRUE, TRUE, MRDiffs(m), HeadSha(m), discussionOk, TRUE)
    ELSE IF cy.pc = "general"
    THEN <<PostNote(<<"general", cy.idx>>, PlainBody(cy.review.Comments[cy.idx]), TRUE)>>
    ELSE <<PostNote(<<"summary", 0>>, SummaryBody(cy.review.Summary), TRUE)>>

\* one iteration of a posting loop of cycle c, or its summary post
CyclePost ==
    \E c \in 1..Len(cyc) :
        /\ proc # "exited"
        /\ cyc[c].pc \in {"positioned", "general", "summary"}
        /\ \E discussionOk \in BOOLEAN :
              /\ (cyc[c].pc # "positioned" => discussionOk)
              /\ \E entries \in {SentFor(Target(cyc, c), PostStep(cyc[c], Target(cyc, c), discussionOk))} :
                    \E next \in {IF cyc[c].pc = "summary" THEN [pc |-> "done", idx |-> 0]
                                 ELSE NextStop(cyc[c].pc, cyc[c].idx + 1, cyc[c].review)} :
                       cyc' = [cyc EXCEPT ![c] =
                                 [cyc[c] EXCEPT !.log = cyc[c].log \o entries,
                                                !.pc = next.pc, !.idx = next.idx]]
        /\ UNCHANGED <<served, proc, diffVars, parseVars, cycleVars, hookVars, pureVars>>

NextServe == Serve \/ CycleFetch \/ CycleReview \/ CyclePost

SpecServe == InitServe /\ [][NextServe]_vars

-----------------------------------------------------------------------------
(* main: the server, the signal and the return of main.                    *)

\* <-quit: SIGINT or SIGTERM arrives and main calls srv.Shutdown, which closes
\* the listener: no further request is served
Signal ==
    /\ proc = "running"
    /\ proc' = "shutdown"
    /\ UNCHANGED <<served, cyc, diffVars, parseVars, cycleVars, hookVars, pureVars>>

\* srv.Shutdown returns (no handler is running: it waits for connections only)
\* and main returns, which ends the process and every goroutine with it
Exit ==
    /\ proc = "shutdown"
    /\ proc' = "exited"
    /\ UNCHANGED <<served, cyc, diffVars, parseVars, cycleVars, hookVars, pureVars>>

NextShutdown == Serve \/ CycleFetch \/ CycleReview \/ CyclePost \/ Signal \/ Exit

SpecShutdown == InitServe /\ [][NextShutdown]_vars

-----------------------------------------------------------------------------
(* SpecConfig: GitLabService.GetWhyThoConfig applied to a merge request's  *)
(* changes and the target branch's .whytho/config.yaml.                    *)

MaxConfigLines == 3

ConfigPath == <<".whytho/config.yaml">>

KeyLine == <<"excludePaths:">>

ItemPrefix == <<" ", " ", "-", " ">>

ItemLine(pattern) == ItemPrefix \o pattern

ConfigLines == {KeyLine, ItemLine(VendorPattern), ItemLine(AnyFilePattern)}

\* a config file as the README describes it: the key, then one item per pattern
WellFormed(lines) ==
    /\ Len(lines) > 0
    /\ lines[1] = KeyLine
    /\ \A k \in 2..Len(lines) : HasPrefix(lines[k], ItemPrefix)

\* yaml.Unmarshal into models.WhyThoConfig, for texts made of key and item lines:
\* an empty text is an empty config, a text that does not begin with the key is
\* no mapping and fails
Unmarshal(lines) ==
    IF Len(lines) = 0 THEN [err |-> FALSE, ExcludePaths |-> <<>>]
    ELSE IF WellFormed(lines)
    THEN [err |-> FALSE, ExcludePaths |-> [k \in 1..(Len(lines) - 1) |-> TrimPrefix(lines[k + 1], ItemPrefix)]]
    ELSE [err |-> TRUE, ExcludePaths |-> <<>>]

\* the lines the loop of parseWhyThoConfigFromDiff writes to yamlContent
RECURSIVE AddedContent(_)
AddedContent(lines) ==
    IF Len(lines) = 0 THEN <<>>
    ELSE IF HasPrefix(lines[1], <<"+">>) /\ ~HasPrefix(lines[1], <<"+", "+", "+">>)
    THEN <<TrimPrefix(lines[1], <<"+">>)>> \o AddedContent(Tail(lines))
    ELSE AddedContent(Tail(lines))

parseWhyThoConfigFromDiff(d) == Unmarshal(AddedContent(d))

\* getWhyThoConfigFromBranch, given the file on the branch and whether GetFile
\* (or the base64 decoding) failed otherwise than with 404
getWhyThoConfigFromBranch(file, fetchErr) ==
    IF fetchErr THEN [err |-> TRUE, ExcludePaths |-> <<>>, from |-> "branch"]
    ELSE IF ~file.exists THEN [err |-> FALSE, ExcludePaths |-> <<>>, from |-> "branch"]
    ELSE [err |-> Unmarshal(file.lines).err, ExcludePaths |-> Unmarshal(file.lines).ExcludePaths, from |-> "branch"]

\* the first change that is the config file and not deleted, or 0
RECURSIVE FindConfigChange(_, _)
FindConfigChange(cs, i) ==
    IF i > Len(cs) THEN 0
    ELSE IF cs[i].NewPath = ConfigPath /\ ~cs[i].DeletedFile THEN i
    ELSE FindConfigChange(cs, i + 1)

GetWhyThoConfig(cs, file, fetchErr) ==
    LET i == FindConfigChange(cs, 1)
    IN  IF i # 0 /\ ~parseWhyThoConfigFromDiff(cs[i].Diff).err
        THEN [err |-> FALSE, ExcludePaths |-> parseWhyThoConfigFromDiff(cs[i].Diff).ExcludePaths, from |-> "diff"]
        ELSE getWhyThoConfigFromBranch(file, fetchErr)

\* edit scripts: lines each kept (" "), added ("+") or removed ("-")
EditTags == {<<" ">>, <<"+">>, <<"-">>}

Edits == SeqsUpTo({<<tag, line>> : tag \in EditTags, line \in ConfigLines}, MaxConfigLines)

RECURSIVE Version(_, _)
\* the file before (drop = "+") or after (drop = "-") the edit
Version(edit, drop) ==
    IF Len(edit) = 0 THEN <<>>
    ELSE IF edit[1][1] = <<drop>> THEN Version(Tail(edit), drop)
    ELSE <<edit[1][2]>> \o Version(Tail(edit), drop)

\* the unified diff GitLab reports for the edit: a hunk header, then the lines
DiffOf(edit) == <<HunkNoCount>> \o [k \in 1..Len(edit) |-> edit[k][1] \o edit[k][2]]

\* edits of a well-formed config file, or creating one, that change something
ConfigEdits ==
    {e \in Edits : /\ WellFormed(Version(e, "-"))
                   /\ (Version(e, "+") = <<>> \/ WellFormed(Version(e, "+")))
                   /\ \E k \in 1..Len(e) : e[k][1] # <<" ">>}

ConfigChange(edit) ==
    [MRChange(ConfigPath, ConfigPath, FALSE, DiffOf(edit)) EXCEPT !.NewFile = (Version(edit, "+") = <<>>)]

BranchFile(lines) == IF lines = <<>> THEN NoFile ELSE [exists |-> TRUE, lines |-> lines]

\* the config file is changed in the merge request (the target branch then holds the
\* version before the edit), or it is not and the branch holds any version or none
InitConfig ==
    /\ \/ \E e \in ConfigEdits :
             /\ cfgChanges \in {<<ConfigChange(e)>>, <<ChangeA, ConfigChange(e)>>}
             /\ cfgBranch = BranchFile(Version(e, "+"))
       \/ /\ cfgChanges \in {<<ChangeA>>, <<ChangeV, ChangeA>>}
          /\ cfgBranch \in {BranchFile(f) : f \in {<<>>, <<KeyLine>>, <<KeyLine, ItemLine(VendorPattern)>>,
                                                   <<KeyLine, ItemLine(AnyFilePattern), ItemLine(VendorPattern)>>}}
    /\ cfgRet = ConfigNotCalled
    /\ FilterIdle
    /\ DiffIdle
    /\ ParseIdle
    /\ CycleIdle
    /\ HookIdle
    /\ ServeIdle

GetConfig ==
    /\ cfgRet = ConfigNotCalled
    /\ \E fetchErr \in BOOLEAN : cfgRet' = GetWhyThoConfig(cfgChanges, cfgBranch, fetchErr)
    /\ UNCHANGED <<cfgChanges, cfgBranch, filterVars, diffVars, parseVars, cycleVars, hookVars, serveVars>>

NextConfig == GetConfig

SpecConfig == InitConfig /\ [][NextConfig]_vars

-----------------------------------------------------------------------------
(* SpecFilter: shouldExcludePath applied to a path and a rule set, and     *)
(* filterExcludedChanges applied to a sequence of changes and the rule set.*)

MaxPatterns == 2

\* vendor/lib.go is v/x, a.generated.go is a.g, README.md is a, vendorx/a.go is vx/a
PathNested == <<"v", "/", "a", "/", "x">>
PathDir == <<"v">>
PathSibling == <<"v", "x", "/", "a">>
PathGen == <<"a", ".", "g">>
PathGenNested == <<"x", "/", "a", ".", "g">>
PathBracket == <<"[", "a", "/", "x">>

FilterPaths == {PathA, PathB, PathV, PathNested, PathDir, PathSibling, PathGen, PathGenNested, PathBracket}

ExtensionPattern == <<"*", ".", "g">>
ClassPattern == <<"[", "a", "-", "c", "]">>
NegatedPattern == <<"[", "^", "a", "]", "?", "*">>
EscapedPattern == <<"\\", "a">>
OpenClassPattern == <<"[">>
OpenClassDirPattern == <<"[", "a", "/", "*", "*">>
TrailingEscapePattern == <<"a", "\\">>

FilterPatterns ==
    {VendorPattern, AnyFilePattern, ExtensionPattern, ClassPattern, NegatedPattern, EscapedPattern,
     OpenClassPattern, OpenClassDirPattern, TrailingEscapePattern}

RuleSets == {<<>>} \cup SeqsUpTo(FilterPatterns, MaxPatterns)

\* changes as GitLab reports them: a deleted file has its path as old path, and as
\* new path the same path or none
ChangeDeletedNoNew == MRChange(PathGen, <<>>, TRUE, <<HunkNoCount, RemovedLine>>)
ChangeRenamed == [MRChange(PathV, PathA, FALSE, <<>>) EXCEPT !.RenamedFile = TRUE]

FilterChangeSets ==
    {<<ChangeA>>, <<ChangeV, ChangeA, ChangeB>>, <<ChangeDeletedNoNew, ChangeV>>,
     <<ChangeRenamed, ChangeDeletedNoNew, ChangeA>>, <<ChangeB, ChangeRenamed>>}

InitFilter ==
    /\ fPath \in FilterPaths
    /\ fPatterns \in RuleSets
    /\ fChanges \in FilterChangeSets
    /\ fVerdict = VerdictNotCalled
    /\ fRet = FilterNotCalled
    /\ ConfigIdle
    /\ DiffIdle
    /\ ParseIdle
    /\ CycleIdle
    /\ HookIdle
    /\ ServeIdle

Exclude ==
    /\ ~fVerdict.called
    /\ fVerdict' = [called |-> TRUE, excluded |-> shouldExcludePath(fPath, fPatterns)]
    /\ UNCHANGED <<fPath, fPatterns, fChanges, fRet, configVars, diffVars, parseVars, cycleVars, hookVars, serveVars>>

Filter ==
    /\ ~fRet.called
    /\ \E ret \in {filterExcludedChanges(fChanges, fPatterns)} :
          fRet' = [called |-> TRUE, filteredChanges |-> ret.filteredChanges, excludedFiles |-> ret.excludedFiles]
    /\ UNCHANGED <<fPath, fPatterns, fChanges, fVerdict, configVars, diffVars, parseVars, cycleVars, hookVars, serveVars>>

NextFilter == Exclude \/ Filter

SpecFilter == InitFilter /\ [][NextFilter]_vars

-----------------------------------------------------------------------------
(* SpecReview: the review cycle with ReviewCode's upstream data modelled:  *)
(* the changes may hold the config file, the target branch holds a config  *)
(* file or none, and the guidance file is present, absent or unreachable.  *)

\* the config file gets one more pattern: the key and the old item are context
EditAppend == <<<<<<" ">>, KeyLine>>, <<<<" ">>, ItemLine(VendorPattern)>>, <<<<"+">>, ItemLine(AnyFilePattern)>>>>

\* the config file is created with one pattern
EditCreate == <<<<<<"+">>, KeyLine>>, <<<<"+">>, ItemLine(VendorPattern)>>>>

\* a target-branch config file that is no YAML mapping
BrokenFile == [exists |-> TRUE, lines |-> <<ItemLine(VendorPattern)>>]

VendorFile == [exists |-> TRUE, lines |-> <<KeyLine, ItemLine(VendorPattern)>>]

\* the changes of a merge request and the config file its target branch holds
ReviewCases ==
    {<<cs, f>> : cs \in {<<ChangeA>>, <<ChangeV, ChangeA>>, <<ChangeB, ChangeV, ChangeA>>},
                 f \in {NoFile, VendorFile, BrokenFile}}
        \cup {<<<<ConfigChange(EditAppend), ChangeV, ChangeA>>, BranchFile(Version(EditAppend, "+"))>>,
              <<<<ConfigChange(EditCreate), ChangeV>>, BranchFile(Version(EditCreate, "+"))>>}

ReviewResponses == {<<RespSummary, RespPosA2New, RespFewFields>>, <<RespText>>}

GuidanceOutcomes == {"absent", "error", "text"}

GuidanceFetch(outcome, guidance) ==
    [call |-> "GetReviewGuidance", for |-> <<"review", 0>>, outcome |-> outcome, guidance |-> guidance]

\* a ReviewCode that returns the error of GetWhyThoConfig
ReviewCodeAbortsOnConfigError(cs, config, guidanceOutcome, guidanceText, modelOutcome, reviewTxt) ==
    LET filtered == filterExcludedChanges(cs, config.ExcludePaths)
        guidance == IF guidanceOutcome = "text" THEN guidanceText ELSE <<>>
        result   == GenerateResult(modelOutcome, reviewTxt)
    IN  IF config.err
        THEN [err |-> TRUE, review |-> NoReview, prompt |-> NoPrompt, calls |-> <<>>]
        ELSE IF Len(filtered.filteredChanges) = 0
        THEN [err |-> FALSE, review |-> AllExcludedReview(filtered.excludedFiles),
              prompt |-> NoPrompt, calls |-> <<>>]
        ELSE [err |-> result.err, review |-> result.review,
              prompt |-> BuildPrompt(filtered, guidance),
              calls |-> <<GuidanceFetch(guidanceOutcome, guidance), Generate(modelOutcome)>>]

\* ReviewCode from what GetWhyThoConfig, GetReviewGuidance and GenerateContent
\* returned: the review or the error, the prompt built, and the calls made after
\* the filter
ReviewCodeResult(cs, config, guidanceOutcome, guidanceText, modelOutcome, reviewTxt) ==
    LET filtered == filterExcludedChanges(cs, IF config.err THEN <<>> ELSE config.ExcludePaths)
        guidance == IF guidanceOutcome = "text" THEN guidanceText ELSE <<>>
        result   == GenerateResult(modelOutcome, reviewTxt)
    IN  IF Len(filtered.filteredChanges) = 0
        THEN [err |-> FALSE, review |-> AllExcludedReview(filtered.excludedFiles),
              prompt |-> NoPrompt, calls |-> <<>>]
        ELSE [err |-> result.err, review |-> result.review,
              prompt |-> BuildPrompt(filtered, guidance),
              calls |-> <<GuidanceFetch(guidanceOutcome, guidance), Generate(modelOutcome)>>]

InitReview ==
    /\ \E case \in ReviewCases : serverDiffs = case[1] /\ cfgBranch = case[2]
    /\ serverRev = 0
    /\ CycleInit
    /\ cfgChanges = <<>>
    /\ cfgRet = ConfigNotCalled
    /\ FilterIdle
    /\ DiffIdle
    /\ ParseIdle
    /\ HookIdle
    /\ ServeIdle

\* ReviewCode with its calls to GitLab, and processMergeRequest's return when it fails
ReviewCodeUpstream ==
    /\ pc = "review"
    /\ \E fetchErr \in BOOLEAN, guidanceOutcome \in GuidanceOutcomes, guidanceText \in {<<"G">>},
          modelOutcome \in {"error", "no candidates", "text"}, reviewTxt \in ReviewResponses :
          \E config \in {GetWhyThoConfig(changes, cfgBranch, fetchErr)} :
             \E r \in {ReviewCodeResult(changes, config, guidanceOutcome, guidanceText, modelOutcome, reviewTxt)} :
                \E next \in {NextStop("positioned", 1, r.review)} :
                   /\ cfgRet' = config
                   /\ review' = r.review
                   /\ prompt' = r.prompt
                   /\ log' = log \o r.calls
                   /\ modelCalls' = modelCalls + (IF Len(r.calls) > 0 THEN 1 ELSE 0)
                   /\ pc' = IF r.err THEN "failed" ELSE next.pc
                   /\ idx' = IF r.err THEN 0 ELSE next.idx
    /\ UNCHANGED <<serverDiffs, serverRev, changes, cfgChanges, cfgBranch, filterVars, diffVars, parseVars, hookVars, serveVars>>

NextReview == FetchChanges \/ ReviewCodeUpstream \/ PostPositioned \/ PostGeneral \/ PostSummary

SpecReview == InitReview /\ [][NextReview]_vars

-----------------------------------------------------------------------------
(* SpecScenario: one file's diff goes through the annotator, the model's   *)
(* response through the parser, and the first positioned comment parsed    *)
(* through the resolver on that diff.                                      *)

ScenarioHunk == <<"@", "@", " ", "-", "1", "0", ",", "2", " ", "+", "1", "0", ",", "3", " ", "@", "@">>
ScenarioOld == <<"-", "o", "l", "d", " ", "l", "i", "n", "e">>
ScenarioNewOne == <<"+", "n", "e", "w", " ", "l", "i", "n", "e", " ", "o", "n", "e">>
ScenarioNewTwo == <<"+", "n", "e", "w", " ", "l", "i", "n", "e", " ", "t", "w", "o">>
ScenarioContext == <<" ", "c", "o", "n", "t", "e", "x", "t", " ", "l", "i", "n", "e">>

ScenarioDiff == <<ScenarioHunk, ScenarioOld, ScenarioNewOne, ScenarioNewTwo, ScenarioContext>>

\* the same change without the removed line, and without the hunk header
ScenarioDiffs ==
    {ScenarioDiff,
     <<ScenarioHunk, ScenarioNewOne, ScenarioNewTwo, ScenarioContext>>,
     <<ScenarioOld, ScenarioNewOne, ScenarioNewTwo, ScenarioContext>>}

ScenarioSummary == <<"S", "u", "m", "m", "a", "r", "y", " ", "p", "a", "r", "a", ".">>
ScenarioFile == <<"f", "i", "l", "e", ".", "g", "o">>
ScenarioBody == <<"U", "s", "e", " ", "a", " ", "b", "e", "t", "t", "e", "r", " ", "n", "a", "m", "e">>

ScenarioComment(position, kind) ==
    CommentPrefix \o ScenarioFile \o <<":">> \o position \o <<":">> \o kind \o <<":">>
        \o SevMedium \o <<":">> \o ScenarioBody

ScenarioResponse == <<ScenarioSummary, ScenarioComment(<<"2">>, KindNew)>>

ScenarioResponses ==
    {ScenarioResponse,
     <<ScenarioSummary, ScenarioComment(<<"1">>, KindOld)>>,
     <<ScenarioSummary, ScenarioComment(<<"4">>, KindContext)>>,
     <<ScenarioSummary, EmptyLine, ScenarioComment(<<"2">>, KindOld)>>}

InitScenario ==
    /\ diff \in ScenarioDiffs
    /\ aPos = 0
    /\ aSt = AnnotatorInit
    /\ rTarget = NoTarget
    /\ rRet = NotFound
    /\ reviewText \in ScenarioResponses
    /\ pPos = 0
    /\ pSt = ParserInit
    /\ CycleIdle
    /\ HookIdle
    /\ ServeIdle
    /\ ConfigIdle
    /\ FilterIdle

\* convertDiffLineToActualLine's call of findActualLineNumber for the first
\* positioned comment of the parsed review
ResolveParsed ==
    /\ aPos = Len(diff)
    /\ pPos = Len(reviewText)
    /\ rTarget = NoTarget
    /\ Len(pSt.positionedComments) > 0
    /\ rTarget' = [LineNumber |-> pSt.positionedComments[1].LineNumber,
                   LineType |-> pSt.positionedComments[1].LineType]
    /\ rRet' = findActualLineNumber(diff, pSt.positionedComments[1])
    /\ UNCHANGED <<diff, aPos, aSt, parseVars, cycleVars, hookVars, serveVars, pureVars>>

NextScenario == AnnotateStep \/ ParseStep \/ ResolveParsed

SpecScenario == InitScenario /\ [][NextScenario]_vars

-----------------------------------------------------------------------------
(* SpecDispatch: PostPositionedMRComment called for one positioned comment *)
(* on a merge request whose one changed file has the diff text `diff`.     *)

\* the positioned comment on file a with diff position p and kind k
DispatchComment(p, k) == PositionedComment(PathA, p, k, SevLow, <<"x">>)

\* the diff lines that matter to the resolver: hunk headers, changed lines, a file marker, a blank line
DispatchLines == {HunkHeader, HunkShort, AddedLine, RemovedLine, ContextLine, NewFileMark, EmptyLine}

InitDispatch ==
    /\ diff \in SeqsUpTo(DispatchLines, MaxDiffLines)
    /\ aPos = 0
    /\ aSt = AnnotatorInit
    /\ rTarget = NoTarget
    /\ rRet = NotFound
    /\ ParseIdle
    /\ CycleIdle
    /\ HookIdle
    /\ ServeIdle
    /\ ConfigIdle
    /\ FilterIdle

\* PostPositionedMRComment; rTarget and rRet hold what findActualLineNumber was
\* called with and returned, if the call got that far
Dispatch ==
    /\ log = <<>>
    /\ \E p \in 0..(Len(diff) + 1), k \in LineTypes, detailsOk, listOk, discussionOk, noteOk \in BOOLEAN :
          \E c \in {DispatchComment(p, k)} :
             /\ log' = PostPositionedMRComment(1, c, detailsOk, listOk, <<MRChange(PathA, PathA, FALSE, diff)>>,
                                               0, discussionOk, noteOk)
             /\ rTarget' = IF detailsOk /\ listOk THEN [LineNumber |-> p, LineType |-> k] ELSE NoTarget
             /\ rRet' = IF detailsOk /\ listOk THEN findActualLineNumber(diff, c) ELSE NotFound
    /\ UNCHANGED <<diff, aPos, aSt, serverDiffs, serverRev, pc, changes, prompt, review, idx, modelCalls, parseVars, hookVars, serveVars, pureVars>>

NextDispatch == Dispatch

SpecDispatch == InitDispatch /\ [][NextDispatch]_vars

-----------------------------------------------------------------------------
(* Claims about the annotator and the resolver (SpecDiff).                 *)

\* the line kind the prompt tells the model to use for each annotation tag
KindOfTag(tag) ==
    CASE tag = "NEW_LINE" -> KindNew
      [] tag = "OLD_LINE" -> KindOld
      [] tag = "CONTEXT"  -> KindContext
      [] OTHER            -> KindOther

\* C1: Annotator/Resolver inverse law. For every position the annotator has
\* attached to a line of the diff text, findActualLineNumber on the same text,
\* with that position and the kind of that line, returns exactly the line number
\* the annotator printed; and a resolution that was run for such a position and
\* kind returned that number.
C1_InverseLaw ==
    \A i \in 1..Len(aSt.result) :
        LET e == aSt.result[i]
            c == [LineNumber |-> e.diffLine, LineType |-> KindOfTag(e.tag)]
        IN  e.tag # "none" =>
                /\ findActualLineNumber(diff, c) = Found(e.lineNum)
                /\ rTarget = c => rRet = Found(e.lineNum)

\* C1 witness: a resolution of the second diff position, an added line behind a
\* hunk header that re-bases the new-file numbering, returned line 21.
C1_Witness ==
    /\ aPos = Len(diff)
    /\ rTarget = [LineNumber |-> 2, LineType |-> KindNew]
    /\ rRet = Found(21)
    /\ \E i \in 1..Len(aSt.result) :
          aSt.result[i] = Annotated(AddedLine, "NEW_LINE", 2, 21)

IsHunkHeaderLine(line) == HasPrefix(line, <<"@", "@">>)

\* `+++ ...` and `--- ...` file markers, `index ...` and `diff --git ...` metadata
IsFileMarkerLine(line) ==
    \/ HasPrefix(line, <<"+", "+", "+", " ">>)
    \/ HasPrefix(line, <<"-", "-", "-", " ">>)
    \/ HasPrefix(line, <<"i", "n", "d", "e", "x">>)
    \/ HasPrefix(line, <<"d", "i", "f", "f", " ", "-", "-", "g", "i", "t">>)

IsChangeLine(line) ==
    /\ ~IsHunkHeaderLine(line)
    /\ ~IsFileMarkerLine(line)
    /\ HasPrefix(line, <<"+">>) \/ HasPrefix(line, <<"-">>) \/ HasPrefix(line, <<" ">>)

\* number of added, removed and context lines among the first n lines of d
RECURSIVE ChangeLinesIn(_, _)
ChangeLinesIn(d, n) ==
    IF n = 0 THEN 0
    ELSE ChangeLinesIn(d, n - 1) + (IF IsChangeLine(d[n]) THEN 1 ELSE 0)

\* C2: Position monotonicity, as claimed. After any number of lines the positions
\* handed out are exactly 1..n in input order, n the number of added, removed and
\* context lines seen; a hunk header or a file-marker/metadata line (`diff --git`,
\* `index`, `+++ `, `--- `) takes no position and is passed through unannotated.
C2_PositionsSkipMarkers ==
    /\ aSt.diffLineNum = ChangeLinesIn(diff, aPos)
    /\ \A i \in 1..aPos :
          /\ (IsHunkHeaderLine(diff[i]) \/ IsFileMarkerLine(diff[i]))
                => aSt.result[i] = PassThrough(diff[i])
          /\ IsChangeLine(diff[i])
                => /\ aSt.result[i].tag # "none"
                   /\ aSt.result[i].diffLine = ChangeLinesIn(diff, i)

-----------------------------------------------------------------------------
(* Claims about the parser (SpecParse).                                    *)

\* the text after `COMMENT:` of a response line, trimmed
Remainder(rawLine) == TrimSpace(TrimPrefix(TrimSpace(rawLine), CommentPrefix))

IsCommentLine(rawLine) == HasPrefix(TrimSpace(rawLine), CommentPrefix)

\* a COMMENT: line with five fields whose second field is no integer
HasNonIntegerSecondField(rawLine) ==
    /\ IsCommentLine(rawLine)
    /\ Len(SplitN(Remainder(rawLine), ":", 5)) = 5
    /\ Atoi(SplitN(Remainder(rawLine), ":", 5)[2]).err

IsString(s) == DOMAIN s = 1..Len(s) /\ \A i \in 1..Len(s) : s[i] \in STRING

\* a COMMENT: line with five fields whose second field is an integer
IsPositionedLine(rawLine) ==
    /\ IsCommentLine(rawLine)
    /\ Len(SplitN(Remainder(rawLine), ":", 5)) = 5
    /\ ~Atoi(SplitN(Remainder(rawLine), ":", 5)[2]).err

\* C5: Parser totality. Whatever the response text, after every line what the
\* parser holds is a well-formed Review Result (a summary string, a sequence of
\* comment strings, a sequence of positioned comments with integer positions),
\* and every COMMENT: line consumed so far whose second field is not an integer
\* has become an Unpositioned Comment holding the trimmed remainder: it made no
\* Positioned Comment and did not end the parse (the lines after it are parsed).
C5_ParserTotality ==
    /\ pSt.inSummary \in BOOLEAN
    /\ IsString(pSt.summary)
    /\ \A j \in 1..Len(pSt.comments) : IsString(pSt.comments[j])
    /\ \A j \in 1..Len(pSt.positionedComments) :
          /\ pSt.positionedComments[j].LineNumber \in Int
          /\ IsString(pSt.positionedComments[j].FilePath)
          /\ IsString(pSt.positionedComments[j].Comment)
    /\ Len(pSt.positionedComments) =
          Cardinality({i \in 1..pPos : IsPositionedLine(reviewText[i])})
    /\ \A i \in 1..pPos :
          HasNonIntegerSecondField(reviewText[i]) =>
              \E j \in 1..Len(pSt.comments) : pSt.comments[j] = Remainder(reviewText[i])

\* C5 witness: a parse that ran to the end over a response whose first line is a
\* COMMENT: line with a non-integer second field and whose last line is a
\* well-formed positioned comment.
C5_Witness ==
    /\ Len(reviewText) = 3
    /\ pPos = 3
    /\ reviewText[1] = RespBadNumber
    /\ reviewText[3] = RespPositioned
    /\ pSt.comments = <<Remainder(RespBadNumber)>>
    /\ Len(pSt.positionedComments) = 1

-----------------------------------------------------------------------------
(* Claims about the review cycle (Spec).                                   *)

IsPost(e) == e.call \in {"PostMRComment", "postPositionedCommentHTTP"}

\* the posts to the merge request, in the order they were made
Posts == SelectSeq(log, IsPost)

CallsFor(call, for) == {k \in 1..Len(log) : log[k].call = call /\ log[k].for = for}

\* the loop a post belongs to: positioned first, general second, the summary last
Rank(for) == IF for[1] = "positioned" THEN 1 ELSE IF for[1] = "general" THEN 2 ELSE 3

\* processMergeRequest got a review and is in, or past, the posting loops
Posting == pc \in {"positioned", "general", "summary"} \/ (pc = "done" /\ changes # <<>>)

\* loop iterations over the positioned / general comments that have run
PositionedRun ==
    IF pc = "positioned" THEN idx - 1
    ELSE IF Posting THEN Len(review.PositionedComments) ELSE 0

GeneralRun ==
    IF pc = "general" THEN idx - 1
    ELSE IF Posting /\ pc # "positioned" THEN Len(review.Comments) ELSE 0

\* C3: Fallback never drops data. For every positioned comment whose resolution
\* failed (the diff fetch failed, its file is not among the diffs, or its position
\* is not there for the requested kind) the cycle made exactly one general-comment
\* post, whose body carries the comment's file path and its original line number,
\* and made no positioned post.
C3_FallbackKeepsData ==
    \A k \in 1..Len(log) :
        (log[k].call = "convertDiffLineToActualLine" /\ log[k].err) =>
            LET for == log[k].for
                c   == review.PositionedComments[for[2]]
            IN  /\ log[k].positionedComment = c
                /\ Cardinality(CallsFor("PostMRComment", for)) = 1
                /\ CallsFor("postPositionedCommentHTTP", for) = {}
                /\ \A n \in CallsFor("PostMRComment", for) :
                      /\ n > k
                      /\ log[n].body = FallbackBody(c)
                      /\ log[n].body.FilePath = c.FilePath
                      /\ log[n].body.LineNumber = c.LineNumber

\* C3 witness: a comment on position 9 of file a, a position that the diff of a
\* does not hold, was resolved with an error and then posted as a general comment.
C3_Witness ==
    \E k \in 1..Len(log) :
        /\ log[k].call = "convertDiffLineToActualLine"
        /\ log[k].err
        /\ log[k].listed
        /\ log[k].diffUsed # <<>>
        /\ log[k].positionedComment.LineNumber = 9
        /\ k < Len(log)
        /\ log[k + 1].call = "PostMRComment"
        /\ log[k + 1].body.LineNumber = 9

\* C4: Posting order within one review cycle. Among the posts made, no post of a
\* later group precedes a post of an earlier group (positioned, then general, then
\* summary) and within a group posts follow the parser's encounter order; the
\* general comments are posted one each, in order; the summary is the last post,
\* made exactly once when it is non-empty and never when it is empty.
C4_PostingOrder ==
    /\ \A m, n \in 1..Len(Posts) :
          m < n => \/ Rank(Posts[m].for) < Rank(Posts[n].for)
                   \/ /\ Rank(Posts[m].for) = Rank(Posts[n].for)
                      /\ Posts[m].for[2] <= Posts[n].for[2]
    /\ \A j \in 1..Len(review.Comments) :
          /\ Cardinality(CallsFor("PostMRComment", <<"general", j>>)) = (IF j <= GeneralRun THEN 1 ELSE 0)
          /\ \A n \in CallsFor("PostMRComment", <<"general", j>>) :
                log[n].body = PlainBody(review.Comments[j])
    /\ \A i \in 1..Len(review.PositionedComments) :
          i > PositionedRun =>
              \A n \in 1..Len(log) : log[n].for # <<"positioned", i>>
    /\ Cardinality(CallsFor("PostMRComment", <<"summary", 0>>)) =
          (IF pc = "done" /\ changes # <<>> /\ review.Summary # <<>> THEN 1 ELSE 0)
    /\ \A n \in CallsFor("PostMRComment", <<"summary", 0>>) :
          /\ n = Len(log)
          /\ log[n].body = SummaryBody(review.Summary)

\* C4 witness: a finished cycle that posted for a positioned comment, then a general
\* comment, then the summary.
C4_Witness ==
    /\ pc = "done"
    /\ Len(Posts) >= 3
    /\ \E m, n \in 1..Len(Posts) :
          /\ m < n
          /\ Rank(Posts[m].for) = 1
          /\ Rank(Posts[n].for) = 2
    /\ Rank(Posts[Len(Posts)].for) = 3

\* C6: Model failure is fatal with no partial posting. If GenerateContent returned
\* an error or no candidates, the cycle has ended in failure with no review, nothing
\* was posted to the merge request, and the model was called exactly once; a cycle
\* that has failed takes no further step.
C6_ModelFailureIsFatal ==
    /\ [](\A k \in 1..Len(log) :
            (log[k].call = "GenerateContent" /\ log[k].outcome # "text") =>
                /\ pc = "failed"
                /\ review = NoReview
                /\ Posts = <<>>
                /\ Len(log) = 1
                /\ modelCalls = 1)
    /\ [](modelCalls <= 1)
    /\ [][pc # "failed"]_vars

\* C6 witness: the model returned no candidates and the cycle has failed.
C6_Witness ==
    /\ pc = "failed"
    /\ Len(log) = 1
    /\ log[1].call = "GenerateContent"
    /\ log[1].outcome = "no candidates"

\* the posts a positioned comment gets, from how its own calls ended
OwnAttempts(for) ==
    IF \E k \in CallsFor("GetMRDetails", for) : ~log[k].ok THEN 0
    ELSE IF \E k \in CallsFor("convertDiffLineToActualLine", for) : log[k].err THEN 1
    ELSE IF \E k \in CallsFor("postPositionedCommentHTTP", for) : ~log[k].ok THEN 2
    ELSE 1

\* C7: Posting failures are isolated. Whatever the outcome of the posts made so far,
\* every loop iteration that has run handled its comment exactly once, and when the
\* cycle is done every positioned comment was handled once, every general comment
\* was posted once and a non-empty summary was posted once; the number of posts a
\* comment gets is fixed by how its own calls ended, never by earlier posts.
C7_PostingFailuresIsolated ==
    /\ \A i \in 1..PositionedRun :
          LET for == <<"positioned", i>>
          IN  /\ Cardinality(CallsFor("GetMRDetails", for)) = 1
              /\ Cardinality(CallsFor("PostMRComment", for))
                   + Cardinality(CallsFor("postPositionedCommentHTTP", for)) = OwnAttempts(for)
    /\ \A j \in 1..GeneralRun :
          Cardinality(CallsFor("PostMRComment", <<"general", j>>)) = 1
    /\ (pc = "done" /\ changes # <<>>) =>
          /\ PositionedRun = Len(review.PositionedComments)
          /\ GeneralRun = Len(review.Comments)
          /\ review.Summary # <<>> =>
                Cardinality(CallsFor("PostMRComment", <<"summary", 0>>)) = 1

\* C7 witness: a finished cycle whose first post failed and which went on to post
\* a general comment and the summary.
C7_Witness ==
    /\ pc = "done"
    /\ Len(Posts) >= 3
    /\ ~Posts[1].ok
    /\ \E n \in 2..Len(Posts) : Posts[n].for[1] = "general" /\ ~Posts[n].ok
    /\ Posts[Len(Posts)].for = <<"summary", 0>>

\* the diff of filePath in the change set the cycle fetched and sent to the model
OriginatingDiff(filePath) ==
    LET i == FindDiff(changes, filePath, 1)
    IN  IF i = 0 THEN <<>> ELSE changes[i].Diff

\* C8: The Line Resolver runs on the originating change set: every resolution that
\* obtained diffs used, for the comment's file, the diff text that this cycle
\* fetched and annotated for the model, even when the merge request's diffs changed
\* at the server in between.
C8_ResolvesOnOriginatingChanges ==
    \A k \in 1..Len(log) :
        (log[k].call = "convertDiffLineToActualLine" /\ log[k].listed) =>
            log[k].diffUsed = OriginatingDiff(log[k].positionedComment.FilePath)

-----------------------------------------------------------------------------
(* Claims about the webhook handler (SpecHook, SpecHookLive).              *)

\* the handler accepted the event and started a review cycle for it
Accepted == hpc = "spawned" \/ (hpc = "responded" /\ pc # "idle")

CycleEnded == pc \in {"done", "failed"}

\* C9: Acknowledge-then-process, as the claim states it: for every accepted event
\* the 200 acknowledgement has been sent by the time the review cycle completes.
C9_AckBeforeCycleCompletes ==
    (Accepted /\ CycleEnded) => hpc = "responded"

\* C9, amended: for every accepted event the handler sends its acknowledgement
\* without waiting for the review cycle (it is sent even if the cycle never takes
\* another step), sending it leaves the cycle untouched, and the response is
\* status 200 with body "Webhook received" whatever the cycle has done or does
\* later; the acknowledgement is not ordered against the cycle's completion.
C9_AckIndependentOfCycle ==
    /\ []((Accepted /\ hpc = "responded") => response = JSON(200, "Webhook received"))
    /\ [][(hpc = "spawned" /\ hpc' = "responded") =>
             (response' = JSON(200, "Webhook received") /\ UNCHANGED cycleVars)]_vars
    /\ [][hpc = "responded" => response' = response]_vars
    /\ (hpc = "spawned") ~> (hpc = "responded")

\* C9 witness: an accepted event was acknowledged with 200 "Webhook received", and
\* its cycle failed at the model call.
C9_Witness ==
    /\ Accepted
    /\ hpc = "responded"
    /\ response = JSON(200, "Webhook received")
    /\ pc = "failed"
    /\ modelCalls = 1

\* C10: Secret-token verification. With a secret configured, a request whose
\* X-Gitlab-Token equals the configured WEBHOOK_SECRET passes verification (it is
\* not answered 401, and a merge-request event that is otherwise valid starts a
\* review), and a request whose token differs is answered 401 and starts no
\* review; with no secret configured no request is answered 401.
C10_SecretTokenVerification ==
    hpc \in {"spawned", "responded"} =>
        /\ (webhookSecret # "" /\ request.readOk /\ request.token = Plain(webhookSecret)) =>
              /\ response.status # 401
              /\ (EarlyReturn("", request) = NoResponse => Accepted)
        /\ (webhookSecret # "" /\ request.readOk /\ request.token # Plain(webhookSecret)) =>
              /\ hpc = "responded"
              /\ response = JSON(401, "Invalid signature")
              /\ ~Accepted
        /\ webhookSecret = "" => response.status # 401

\* the conditions under which a request is to start a review cycle
ShouldStart ==
    /\ request.readOk
    /\ verifySignature(webhookSecret, Body(request.parseOk, request.action, request.oldrev), request.token)
    /\ request.event = "Merge Request Hook"
    /\ request.parseOk
    /\ request.action \in {"open", "reopen", "update"}
    /\ (request.action = "update" => request.oldrev # "")

\* the cycle has done nothing: no GitLab fetch, no model call, no post
CycleUntouched ==
    /\ pc = "idle"
    /\ changes = <<>>
    /\ review = NoReview
    /\ log = <<>>
    /\ modelCalls = 0

\* C11: A review cycle is started for a request if and only if signature
\* verification passes, the event is "Merge Request Hook", the payload is read and
\* parses, the action is open, reopen or update, and an update carries a non-empty
\* oldrev. Every other request is answered 401, 400 or 200 (ignored / skipped) and
\* no GitLab fetch, model call or comment post is ever made for it.
C11_CycleStartedIffValid ==
    /\ hpc = "received" => CycleUntouched
    /\ hpc # "received" =>
          /\ Accepted <=> ShouldStart
          /\ ~ShouldStart =>
                /\ hpc = "responded"
                /\ response.status \in {400, 401, 200}
                /\ response.message \in {"Failed to read request body", "Invalid signature", "Event ignored",
                                         "Failed to parse webhook", "Action ignored", "No new commits, review skipped"}
                /\ CycleUntouched

\* C11 witness: an update without oldrev, otherwise valid, was answered 200
\* "No new commits, review skipped" and no cycle was started.
C11_Witness ==
    /\ hpc = "responded"
    /\ request.readOk /\ request.parseOk
    /\ request.event = "Merge Request Hook"
    /\ request.action = "update"
    /\ request.oldrev = ""
    /\ response = JSON(200, "No new commits, review skipped")
    /\ CycleUntouched

-----------------------------------------------------------------------------
(* Claims about concurrent review cycles (SpecServe).                      *)

\* event number e was accepted: it was answered 200 "Webhook received"
ServedAccepted(e) == served[e].response = JSON(200, "Webhook received")

CyclesOf(e) == {c \in 1..Len(cyc) : cyc[c].event = e}

Running(c) == cyc[c].pc \notin {"done", "failed"}

\* C12: Every accepted event started exactly one review cycle, for that event's
\* merge request, and every cycle belongs to an accepted event: k accepted events,
\* several for one merge request included, have started exactly k cycles, whatever
\* the cycles started earlier are doing; no other event started one.
C12_OneCyclePerAcceptedEvent ==
    /\ \A e \in 1..Len(served) :
          /\ Cardinality(CyclesOf(e)) = (IF ServedAccepted(e) THEN 1 ELSE 0)
          /\ \A c \in CyclesOf(e) : cyc[c].mr = served[e].mr
    /\ \A c \in 1..Len(cyc) : cyc[c].event \in 1..Len(served)
    /\ Len(cyc) = Cardinality({e \in 1..Len(served) : ServedAccepted(e)})

\* C12 witness: two events for the same merge request were accepted while the first
\* one's cycle was still running, and both cycles are in progress side by side.
C12_Witness ==
    /\ Len(cyc) = 2
    /\ cyc[1].mr = cyc[2].mr
    /\ cyc[1].log # <<>> /\ Running(1)
    /\ cyc[2].log # <<>> /\ Running(2)

\* the review a cycle working by itself gets from its own changes, rule set and answer
OwnReview(cy) ==
    IF cy.inputs.modelOutcome = "none"
    THEN AllExcludedReview(filterExcludedChanges(cy.changes, cy.inputs.excludePaths).excludedFiles)
    ELSE GenerateResult(cy.inputs.modelOutcome, cy.inputs.reviewTxt).review

\* the call e is what a cycle with review rv working on merge request m sends
OwnCall(e, rv, m) ==
    IF e.call = "GetMRDetails" THEN e.for[2] \in 1..Len(rv.PositionedComments)
    ELSE IF e.call = "convertDiffLineToActualLine"
    THEN e = Resolution(e.for, rv.PositionedComments[e.for[2]],
                        convertDiffLineToActualLine(TRUE, MRDiffs(m), rv.PositionedComments[e.for[2]]))
    ELSE IF e.call = "postPositionedCommentHTTP"
    THEN e.form = PositionForm([rv.PositionedComments[e.for[2]] EXCEPT
                                   !.LineNumber = convertDiffLineToActualLine(TRUE, MRDiffs(m), rv.PositionedComments[e.for[2]]).line],
                               HeadSha(m))
    ELSE IF e.call = "PostMRComment"
    THEN e.body = (IF e.for[1] = "positioned" THEN FallbackBody(rv.PositionedComments[e.for[2]])
                   ELSE IF e.for[1] = "general" THEN PlainBody(rv.Comments[e.for[2]])
                   ELSE SummaryBody(rv.Summary))
    ELSE e.call = "GenerateContent"

\* C13: Concurrent review cycles do not interfere. Under every interleaving, each
\* cycle's changes are those of its own merge request, its review is the one its
\* own changes, rule set and model answer give, every call it sends to GitLab is
\* sent for its own merge request, and what it posts is built from its own review
\* and its own merge request's diffs, whatever the other cycles are doing.
C13_CyclesDoNotInterfere ==
    \A c \in 1..Len(cyc) :
        LET cy == cyc[c]
        IN  /\ cy.mr = served[cy.event].mr
            /\ cy.changes \in {<<>>, MRDiffs(cy.mr)}
            /\ cy.pc \in {"fetch", "review"} => cy.review = NoReview /\ cy.log = <<>>
            /\ (cy.pc \notin {"fetch", "review"} /\ cy.changes # <<>>) => cy.review = OwnReview(cy)
            /\ \A k \in 1..Len(cy.log) :
                  /\ cy.log[k].sent.call # "GenerateContent" => cy.log[k].mr = cy.mr
                  /\ OwnCall(cy.log[k].sent, cy.review, cy.mr)

\* C13 witness: two cycles for different merge requests ran interleaved (one is
\* done, one still posting), and each made a positioned post on its own merge request.
C13_Witness ==
    /\ Len(cyc) = 2
    /\ cyc[1].mr # cyc[2].mr
    /\ Running(1)
    /\ cyc[2].pc = "done"
    /\ \E k \in 1..Len(cyc[1].log) : cyc[1].log[k].sent.call = "postPositionedCommentHTTP"
    /\ \E k \in 1..Len(cyc[2].log) : cyc[2].log[k].sent.call = "postPositionedCommentHTTP"

-----------------------------------------------------------------------------
(* Claims about the exclusion config (SpecConfig).                         *)

\* the file after the change, read off the unified diff d: every line that is not
\* a hunk header and not removed, without its marker
RECURSIVE NewContent(_)
NewContent(d) ==
    IF Len(d) = 0 THEN <<>>
    ELSE IF HasPrefix(d[1], <<"@", "@">>) \/ HasPrefix(d[1], <<"-">>) THEN NewContent(Tail(d))
    ELSE <<Tail(d[1])>> \o NewContent(Tail(d))

\* the patterns a well-formed config file lists
PatternsIn(lines) == [k \in 1..(Len(lines) - 1) |-> TrimPrefix(lines[k + 1], ItemPrefix)]

ConfigChangesIn(cs) == {k \in 1..Len(cs) : cs[k].NewPath = ConfigPath /\ ~cs[k].DeletedFile}

\* C14: Exclusion-config priority. If .whytho/config.yaml is changed and not
\* deleted in the merge request, the rule set returned is that of the file as it
\* is after the change, lines the change left untouched included; if it is not
\* changed, the target-branch version is used (unless fetching it fails); if there
\* is no config file, the rule set is empty.
C14_ConfigPriority ==
    cfgRet # ConfigNotCalled =>
        IF ConfigChangesIn(cfgChanges) # {}
        THEN \E k \in ConfigChangesIn(cfgChanges) :
                /\ ~cfgRet.err
                /\ cfgRet.ExcludePaths = PatternsIn(NewContent(cfgChanges[k].Diff))
        ELSE \/ cfgRet.err
             \/ cfgRet.ExcludePaths = (IF cfgBranch.exists THEN PatternsIn(cfgBranch.lines) ELSE <<>>)

\* ReviewCode ran on a non-empty change list
Reviewed17 == changes # <<>> /\ pc \in {"positioned", "general", "summary", "done", "failed"}

\* the paths of all the fetched changes, as the filter records them
AllPaths == [i \in 1..Len(changes) |-> FilterPath(changes[i])]

\* C17: all files excluded. The model is called only when the filter kept a change
\* (the prompt then lists fewer excluded paths than there are changes). When it kept
\* none the model is never called, the review has no positioned and no general
\* comments, its summary says that all files are excluded and lists the path of
\* every change, and the cycle makes exactly one post, the general comment that
\* carries that summary.
C17_AllExcludedShortCircuit ==
    /\ (Reviewed17 /\ modelCalls > 0) => Len(prompt.excludedFiles) < Len(changes)
    /\ (Reviewed17 /\ modelCalls = 0) =>
          /\ \A k \in 1..Len(log) : log[k].call # "GenerateContent"
          /\ review.PositionedComments = <<>>
          /\ review.Comments = <<>>
          /\ review.Summary = AllExcludedText \o <<" Excluded files: ">> \o Join(AllPaths, <<",", " ">>)
          /\ pc \in {"summary", "done"}
          /\ pc = "summary" => Posts = <<>>
          /\ pc = "done" =>
                /\ Len(Posts) = 1
                /\ Posts[1].call = "PostMRComment"
                /\ Posts[1].for = <<"summary", 0>>
                /\ Posts[1].body = SummaryBody(review.Summary)

\* C17 witness: a cycle over two changes, both excluded, has ended after posting
\* the summary and nothing else, without a model call.
C17_Witness ==
    /\ pc = "done"
    /\ Len(changes) = 2
    /\ modelCalls = 0
    /\ Len(log) = 1
    /\ log[1] = PostNote(<<"summary", 0>>, SummaryBody(AllExcludedReview(AllPaths).Summary), TRUE)

-----------------------------------------------------------------------------
(* Claims about the path filter (SpecFilter). Shell-glob semantics are     *)
(* stated here by what a pattern denotes, apart from the matching loop.    *)

\* a class item: a character other than - and ], or an escaped character
GlobItem(p) ==
    IF Len(p) = 0 \/ p[1] = "-" \/ p[1] = "]" THEN [ok |-> FALSE, c |-> "", rest |-> <<>>]
    ELSE IF p[1] = "\\"
    THEN IF Len(p) < 2 THEN [ok |-> FALSE, c |-> "", rest |-> <<>>]
         ELSE [ok |-> TRUE, c |-> p[2], rest |-> SubSeq(p, 3, Len(p))]
    ELSE [ok |-> TRUE, c |-> p[1], rest |-> Tail(p)]

\* the characters of a class whose items begin at p, and what follows its ]
RECURSIVE GlobClass(_, _, _)
GlobClass(p, members, n) ==
    IF Len(p) = 0 THEN [ok |-> FALSE, members |-> {}, rest |-> <<>>]
    ELSE IF p[1] = "]" /\ n > 0 THEN [ok |-> TRUE, members |-> members, rest |-> Tail(p)]
    ELSE LET lo == GlobItem(p)
         IN  IF ~lo.ok THEN [ok |-> FALSE, members |-> {}, rest |-> <<>>]
             ELSE IF Len(lo.rest) > 0 /\ lo.rest[1] = "-"
             THEN LET hi == GlobItem(Tail(lo.rest))
                  IN  IF ~hi.ok THEN [ok |-> FALSE, members |-> {}, rest |-> <<>>]
                      ELSE GlobClass(hi.rest,
                                     members \cup {Alphabet[k] : k \in Ord(lo.c)..Ord(hi.c)}, n + 1)
             ELSE GlobClass(lo.rest, members \cup {lo.c}, n + 1)

\* the class that begins at p[1] = "["
GlobClassAt(p) ==
    LET negated == Len(p) > 1 /\ p[2] = "^"
        cls     == GlobClass(SubSeq(p, IF negated THEN 3 ELSE 2, Len(p)), {}, 0)
    IN  [ok |-> cls.ok, negated |-> negated, members |-> cls.members, rest |-> cls.rest]

\* the pattern is well formed: every class is closed and every escape escapes
RECURSIVE GlobValid(_)
GlobValid(p) ==
    IF Len(p) = 0 THEN TRUE
    ELSE IF p[1] = "\\" THEN Len(p) >= 2 /\ GlobValid(SubSeq(p, 3, Len(p)))
    ELSE IF p[1] = "[" THEN GlobClassAt(p).ok /\ GlobValid(GlobClassAt(p).rest)
    ELSE GlobValid(Tail(p))

\* the well-formed pattern p denotes the whole of name
RECURSIVE GlobDenotes(_, _)
GlobDenotes(p, name) ==
    IF Len(p) = 0 THEN Len(name) = 0
    ELSE IF p[1] = "*"
    THEN \E k \in 0..Len(name) :
            /\ \A i \in 1..k : name[i] # "/"
            /\ GlobDenotes(Tail(p), SubSeq(name, k + 1, Len(name)))
    ELSE IF Len(name) = 0 THEN FALSE
    ELSE IF p[1] = "?" THEN name[1] # "/" /\ GlobDenotes(Tail(p), Tail(name))
    ELSE IF p[1] = "["
    THEN /\ (name[1] \in GlobClassAt(p).members) # GlobClassAt(p).negated
         /\ GlobDenotes(GlobClassAt(p).rest, Tail(name))
    ELSE IF p[1] = "\\" THEN name[1] = p[2] /\ GlobDenotes(SubSeq(p, 3, Len(p)), Tail(name))
    ELSE name[1] = p[1] /\ GlobDenotes(Tail(p), Tail(name))

\* the directory rule: the pattern ends with /** and the path is its prefix or lies under it
DirRule(pattern, path) ==
    /\ HasSuffix(pattern, DirSuffix)
    /\ LET prefix == SubSeq(pattern, 1, Len(pattern) - Len(DirSuffix))
       IN  path = prefix \/ HasPrefix(path, prefix \o <<"/">>)

\* C15, as the claim states it: shouldExcludePath is true exactly when some pattern
\* matches the whole path under shell-glob semantics or some pattern ends with /**
\* and the path equals its prefix or starts with prefix + "/".
C15_ExcludedIffGlobOrDirRule ==
    fVerdict.called =>
        (fVerdict.excluded <=>
            \E k \in 1..Len(fPatterns) :
                \/ GlobValid(fPatterns[k]) /\ GlobDenotes(fPatterns[k], fPath)
                \/ DirRule(fPatterns[k], fPath))

\* C15, amended: shouldExcludePath is true exactly when some well-formed pattern
\* matches the whole path under shell-glob semantics, or some well-formed pattern
\* ends with /** and the path equals its prefix or starts with prefix + "/"; a
\* malformed pattern excludes nothing, not even by its /** ending. So v/x and
\* v/a/x are excluded by <<v/**>>, a and vx/a are not, a.g is excluded by <<*.g>>.
C15_ExcludedIffValidGlobOrDirRule ==
    /\ fVerdict.called =>
          (fVerdict.excluded <=>
              \E k \in 1..Len(fPatterns) :
                  /\ GlobValid(fPatterns[k])
                  /\ GlobDenotes(fPatterns[k], fPath) \/ DirRule(fPatterns[k], fPath))
    /\ (fVerdict.called /\ fPatterns = <<VendorPattern>>) =>
          (fVerdict.excluded <=> fPath \in {PathV, PathNested, PathDir})
    /\ (fVerdict.called /\ fPatterns = <<ExtensionPattern>>) =>
          (fVerdict.excluded <=> fPath = PathGen)

\* C15 witness: v/a/x, which no glob matches whole, is excluded by the directory
\* rule of v/** standing behind a malformed pattern.
C15_Witness ==
    /\ fVerdict.called
    /\ fVerdict.excluded
    /\ fPath = PathNested
    /\ fPatterns = <<OpenClassDirPattern, VendorPattern>>

GenSuffix == <<".", "g">>

\* C16: with a file-extension pattern such as *.g in the rule set, every file whose
\* name ends with that suffix is excluded, whatever directory it is in.
C16_ExtensionPatternExcludesAtAnyDepth ==
    (/\ fVerdict.called
     /\ \E k \in 1..Len(fPatterns) : fPatterns[k] = ExtensionPattern
     /\ HasSuffix(fPath, GenSuffix))
        => fVerdict.excluded

\* the path the file status selects: the old path of a deleted file, else the new path
StatusPath(change) == IF change.DeletedFile THEN change.OldPath ELSE change.NewPath

\* the subsequence of s at the positions in K, in order
RECURSIVE Pick(_, _, _)
Pick(s, K, i) ==
    IF i > Len(s) THEN <<>>
    ELSE (IF i \in K THEN <<s[i]>> ELSE <<>>) \o Pick(s, K, i + 1)

StatusPaths(cs) == [i \in 1..Len(cs) |-> StatusPath(cs[i])]

\* the positions of the changes whose status path the rule set excludes
ExcludedByStatus(cs, excludePaths) ==
    {i \in 1..Len(cs) : shouldExcludePath(StatusPath(cs[i]), excludePaths)}

\* C18: filterExcludedChanges matches the patterns against the old path of a
\* change flagged deleted and against the new path of every other change, and
\* records the matched path in the exclusion list.
C18_MatchedPathByFileStatus ==
    (fRet.called /\ Len(fPatterns) > 0) =>
        LET X == ExcludedByStatus(fChanges, fPatterns)
        IN  /\ fRet.excludedFiles = Pick(StatusPaths(fChanges), X, 1)
            /\ fRet.filteredChanges = Pick(fChanges, (1..Len(fChanges)) \ X, 1)

\* C18 witness: a deleted change without a new path was excluded under its old
\* path, and a renamed change was kept because its new path matches nothing.
C18_Witness ==
    /\ fRet.called
    /\ fChanges = <<ChangeRenamed, ChangeDeletedNoNew, ChangeA>>
    /\ fPatterns = <<VendorPattern, ExtensionPattern>>
    /\ fRet.excludedFiles = <<PathGen>>
    /\ fRet.filteredChanges = <<ChangeRenamed, ChangeA>>

\* C19: filterExcludedChanges partitions its input: some set of positions is
\* kept, in input order, and the paths of exactly the other positions form the
\* exclusion list; with an empty rule set the input is returned unchanged with
\* an empty exclusion list.
C19_PartitionKeepsOrder ==
    fRet.called =>
        /\ \E K \in SUBSET (1..Len(fChanges)) :
              /\ fRet.filteredChanges = Pick(fChanges, K, 1)
              /\ fRet.excludedFiles =
                    Pick([i \in 1..Len(fChanges) |-> FilterPath(fChanges[i])],
                         (1..Len(fChanges)) \ K, 1)
        /\ Len(fRet.filteredChanges) + Len(fRet.excludedFiles) = Len(fChanges)
        /\ Len(fPatterns) = 0 =>
              fRet.filteredChanges = fChanges /\ fRet.excludedFiles = <<>>

\* C19 witness: the middle change of three was excluded and the other two were
\* kept in their input order.
C19_Witness ==
    /\ fRet.called
    /\ fChanges = <<ChangeV, ChangeA, ChangeB>>
    /\ fRet.filteredChanges = <<ChangeV, ChangeB>>
    /\ fRet.excludedFiles = <<PathA>>

\* the rule set without the patterns filepath.Match rejects
RECURSIVE ValidOnly(_)
ValidOnly(excludePaths) ==
    IF Len(excludePaths) = 0 THEN <<>>
    ELSE (IF GlobValid(Head(excludePaths)) THEN <<Head(excludePaths)>> ELSE <<>>)
            \o ValidOnly(Tail(excludePaths))

\* C20: shouldExcludePath always gives a verdict, filepath.Match rejects exactly
\* the malformed patterns whatever the path, and the verdict with rule set P is
\* the verdict with the malformed patterns removed from P.
C20_InvalidPatternsSkipped ==
    fVerdict.called =>
        /\ fVerdict.excluded \in BOOLEAN
        /\ \A k \in 1..Len(fPatterns) :
              Match(fPatterns[k], fPath).err <=> ~GlobValid(fPatterns[k])
        /\ fVerdict.excluded = shouldExcludePath(fPath, ValidOnly(fPatterns))

\* C20 witness: a path excluded by a pattern that stands behind a malformed one.
C20_Witness ==
    /\ fVerdict.called
    /\ fVerdict.excluded
    /\ fPath = PathV
    /\ fPatterns = <<OpenClassPattern, VendorPattern>>

-----------------------------------------------------------------------------
(* Claims about ReviewCode's upstream data (SpecReview).                   *)

\* ReviewCode has run
UpstreamReviewed == cfgRet.from # "not called"

\* the merge request changes the config file and the changed version does not parse
DiffVersionUnparsed ==
    /\ FindConfigChange(changes, 1) # 0
    /\ parseWhyThoConfigFromDiff(changes[FindConfigChange(changes, 1)].Diff).err

\* every change was kept: nothing is listed as excluded and every change has its section
EveryChangeKept ==
    /\ prompt.excludedFiles = <<>>
    /\ prompt.sections = FileSections(changes)

ModelWasCalled ==
    /\ modelCalls = 1
    /\ \E k \in 1..Len(log) : log[k].call = "GenerateContent"

\* the guidance file was absent or its fetch failed: the prompt carries no guidance
\* and the model was called with it
GuidanceDegrades ==
    \A k \in 1..Len(log) :
        (log[k].call = "GetReviewGuidance" /\ log[k].outcome \in {"absent", "error"}) =>
            /\ prompt.guidance = <<>>
            /\ log[k + 1].call = "GenerateContent"

\* only the model ends a review in failure, and a review the model wrote is posted
OnlyModelAborts ==
    /\ pc = "failed" => log[Len(log)].call = "GenerateContent" /\ log[Len(log)].outcome # "text"
    /\ (pc = "done" /\ \E k \in 1..Len(log) : log[k].call = "GenerateContent") => Len(Posts) >= 1

-----------------------------------------------------------------------------
(* Claims about the end-to-end scenario (SpecScenario).                    *)

\* the tag, diff position and line number of each line of the annotated diff
Annotations == [k \in 1..Len(aSt.result) |-> <<aSt.result[k].tag, aSt.result[k].diffLine, aSt.result[k].lineNum>>]

\* C22: for the diff @@ -10,2 +10,3 @@ / -old line / +new line one / +new line two /
\* context line the annotator assigns position 1 (old line 10), 2 (new line 10),
\* 3 (new line 11) and 4 (context); the response "Summary para." followed by
\* "COMMENT:file.go:2:new:MEDIUM:Use a better name" parses to the summary
\* "Summary para.", no general comment and the one positioned comment {file.go, 2,
\* new, MEDIUM, "Use a better name"}; resolving it on that diff returns line 10.
C22_EndToEndScenario ==
    /\ (diff = ScenarioDiff /\ aPos = Len(diff)) =>
          /\ addLineNumbersToDiff(diff) = aSt.result
          /\ [k \in 1..Len(diff) |-> aSt.result[k].text] = diff
          /\ SubSeq(Annotations, 1, 4) =
                <<<<"none", 0, 0>>, <<"OLD_LINE", 1, 10>>, <<"NEW_LINE", 2, 10>>, <<"NEW_LINE", 3, 11>>>>
          /\ aSt.result[5].tag = "CONTEXT"
          /\ aSt.result[5].diffLine = 4
    /\ (reviewText = ScenarioResponse /\ pPos = Len(reviewText)) =>
          /\ parseReview(reviewText).Summary = pSt.summary
          /\ pSt.summary = ScenarioSummary
          /\ pSt.comments = <<>>
          /\ pSt.positionedComments =
                <<PositionedComment(ScenarioFile, 2, KindNew, SevMedium, ScenarioBody)>>
    /\ (diff = ScenarioDiff /\ reviewText = ScenarioResponse /\ rTarget # NoTarget) =>
          /\ rTarget = [LineNumber |-> 2, LineType |-> KindNew]
          /\ rRet = Found(10)

\* C22 witness: the scenario's diff and response went through all three stages.
C22_Witness ==
    /\ diff = ScenarioDiff
    /\ reviewText = ScenarioResponse
    /\ aPos = 5
    /\ pPos = 2
    /\ rRet = Found(10)

-----------------------------------------------------------------------------
(* Claims about the annotator and the resolver side by side (SpecDiff) and *)
(* about the dispatch of one positioned comment (SpecDispatch).            *)

\* the resolver's loop state after the first n lines of the diff, for comment c
ResolverAfter(n, c) == ResolveFrom(SubSeq(diff, 1, n), 1, ResolverInit, c)

Counters(st) == <<st.oldLineNum, st.newLineNum, st.diffLineNum>>

\* C23: annotator and resolver stay in lock-step. Whatever position and kind the
\* resolver looks for, after every prefix of the diff's lines that it scans (it
\* has not returned before the last line of the prefix) it holds the same
\* oldLineNum, newLineNum and diffLineNum as the annotator after that prefix.
C23_LockStep ==
    \A p \in 0..(Len(diff) + 1), k \in LineTypes :
        LET c == [LineNumber |-> p, LineType |-> k]
        IN  (aPos = 0 \/ ~ResolverAfter(aPos - 1, c).returned) =>
                Counters(ResolverAfter(aPos, c)) = Counters(aSt)

\* C23 witness: both scans are past a hunk header whose old start does not parse,
\* a +++ marker line and a context line, with the counters at (1, 8, 2).
C23_Witness ==
    /\ diff = <<HunkBadOld, NewFileMark, ContextLine>>
    /\ aPos = 3
    /\ Counters(aSt) = <<1, 8, 2>>
    /\ Counters(ResolverAfter(3, [LineNumber |-> 3, LineType |-> KindNew])) = <<1, 8, 2>>

\* the kind of a diff line by its first character, <<>> for a line that has none
LineKindOf(line) ==
    IF HasPrefix(line, <<"+">>) THEN KindNew
    ELSE IF HasPrefix(line, <<"-">>) THEN KindOld
    ELSE IF HasPrefix(line, <<" ">>) THEN KindContext
    ELSE <<>>

\* the diff position of line i: the lines that have a kind, counted up to i
PositionOf(d, i) == Cardinality({j \in 1..i : LineKindOf(d[j]) # <<>>})

\* the lines of the diff at the target position that have the requested kind
Hits ==
    {i \in 1..Len(diff) : /\ LineKindOf(diff[i]) # <<>>
                          /\ PositionOf(diff, i) = rTarget.LineNumber
                          /\ LineKindOf(diff[i]) = rTarget.LineType}

NotesIn(entries) == {j \in 1..Len(entries) : entries[j].call = "PostMRComment"}

DiscussionsIn(entries) == {j \in 1..Len(entries) : entries[j].call = "postPositionedCommentHTTP"}

\* C24: findActualLineNumber returns a line number exactly when the diff has a
\* line at the target position whose kind is the requested kind, and then returns
\* the old-file number of that line for kind old and its new-file number for new
\* and context; it fails for a position <= 0 or beyond the last diff line, for a
\* kind the line at the position does not have, and for an unrecognized kind; a
\* comment it fails for is not posted as a positioned comment and gets the
\* general-comment fallback.
C24_ResolverSuccessCondition ==
    rTarget # NoTarget =>
        /\ ~rRet.err <=> Hits # {}
        /\ \A i \in Hits :
              LET st == AnnotateFrom(diff, 1, AnnotatorInit).result[i]
                  at == AnnotateFrom(SubSeq(diff, 1, i), 1, AnnotatorInit)
              IN  /\ rRet.line = st.lineNum
                  /\ rRet.line = IF rTarget.LineType = KindOld THEN at.oldLineNum ELSE at.newLineNum
        /\ (\/ rTarget.LineNumber <= 0
            \/ rTarget.LineNumber > PositionOf(diff, Len(diff))
            \/ rTarget.LineType \notin {KindNew, KindOld, KindContext}) => rRet = NotFound
        /\ rRet.err =>
              /\ DiscussionsIn(log) = {}
              /\ Cardinality(NotesIn(log)) = 1
              /\ \A j \in NotesIn(log) :
                    log[j].body = FallbackBody(DispatchComment(rTarget.LineNumber, rTarget.LineType))

\* C24 witness: the line at position 2 is an added line and kind old was asked
\* for; the resolver failed and the comment went out as a general comment.
C24_Witness ==
    /\ diff = <<HunkHeader, RemovedLine, AddedLine>>
    /\ rTarget = [LineNumber |-> 2, LineType |-> KindOld]
    /\ rRet = NotFound
    /\ Len(log) = 3
    /\ log[3] = PostNote(<<"positioned", 1>>, FallbackBody(DispatchComment(2, KindOld)), TRUE)

\* C25: fallback on precise-post failure. When resolution succeeded and the
\* positioned post failed, exactly one general comment is posted for the comment,
\* and its body carries the file path and the diff position that was asked for,
\* not the resolved line number; when the positioned post succeeded no general
\* comment is posted.
C25_FallbackOnPostFailure ==
    \A j \in DiscussionsIn(log) :
        /\ ~rRet.err
        /\ log[j].form.new_line = <<rRet.line>> \/ log[j].form.old_line = <<rRet.line>>
        /\ Cardinality(DiscussionsIn(log)) = 1
        /\ log[j].ok => NotesIn(log) = {}
        /\ ~log[j].ok =>
              /\ Cardinality(NotesIn(log)) = 1
              /\ \A n \in NotesIn(log) :
                    /\ n > j
                    /\ log[n].body.FilePath = PathA
                    /\ log[n].body.LineNumber = rTarget.LineNumber
                    /\ log[n].body = FallbackBody(DispatchComment(rTarget.LineNumber, rTarget.LineType))

\* C25 witness: position 2 resolved to new line 20, the positioned post with line
\* 20 failed, and the general comment posted instead names line 2.
C25_Witness ==
    /\ diff = <<HunkHeader, RemovedLine, AddedLine>>
    /\ rTarget = [LineNumber |-> 2, LineType |-> KindNew]
    /\ rRet = Found(20)
    /\ Len(log) = 4
    /\ log[3].call = "postPositionedCommentHTTP"
    /\ log[3].form.new_line = <<20>>
    /\ ~log[3].ok
    /\ log[4].call = "PostMRComment"
    /\ log[4].body.LineNumber = 2
    /\ log[4].ok

-----------------------------------------------------------------------------
(* Claims about the parser's line rules (SpecParse). Fields are told apart *)
(* here by the places of the colons in the trimmed remainder.              *)

ColonsIn(s) == {i \in 1..Len(s) : s[i] = ":"}

\* the place of the n-th colon of s
NthColon(s, n) == CHOOSE i \in ColonsIn(s) : Cardinality({j \in ColonsIn(s) : j < i}) = n - 1

\* the five fields of a text with at least four colons, cut at the first four
FieldsOf(s) ==
    <<SubSeq(s, 1, NthColon(s, 1) - 1),
      SubSeq(s, NthColon(s, 1) + 1, NthColon(s, 2) - 1),
      SubSeq(s, NthColon(s, 2) + 1, NthColon(s, 3) - 1),
      SubSeq(s, NthColon(s, 3) + 1, NthColon(s, 4) - 1),
      SubSeq(s, NthColon(s, 4) + 1, Len(s))>>

DecimalDigits == {"0", "1", "2", "3", "4", "5", "6", "7", "8", "9"}

\* an optional sign and then at least one decimal digit
IsIntegerText(s) ==
    LET from == IF Len(s) > 0 /\ s[1] \in {"+", "-"} THEN 2 ELSE 1
    IN  Len(s) >= from /\ \A i \in from..Len(s) : s[i] \in DecimalDigits

EmptyCommentLine(rawLine) == IsCommentLine(rawLine) /\ Remainder(rawLine) = <<>>

WellFormedCommentLine(rawLine) ==
    /\ IsCommentLine(rawLine)
    /\ Cardinality(ColonsIn(Remainder(rawLine))) >= 4
    /\ IsIntegerText(FieldsOf(Remainder(rawLine))[2])

MalformedCommentLine(rawLine) ==
    /\ IsCommentLine(rawLine)
    /\ Remainder(rawLine) # <<>>
    /\ ~WellFormedCommentLine(rawLine)

\* the lines consumed so far, up to and including line i, that satisfy P
ConsumedUpTo(P(_), i) == {j \in 1..i : P(reviewText[j])}

\* the line the step consumes
Consumed == reviewText[pPos']

\* C26: the summary mode is a one-way latch. inSummary is true exactly as long as
\* no COMMENT: line has been consumed; once false it stays false and the summary
\* no longer changes; and a line that is no COMMENT: line, consumed after the
\* latch went off, changes nothing the parser holds.
C26_SummaryModeLatch ==
    /\ [](pSt.inSummary <=> ConsumedUpTo(IsCommentLine, pPos) = {})
    /\ [][/\ ~pSt.inSummary => (~pSt'.inSummary /\ pSt'.summary = pSt.summary)
          /\ (pPos' = pPos + 1 /\ IsCommentLine(Consumed)) => ~pSt'.inSummary
          /\ (pPos' = pPos + 1 /\ ~pSt.inSummary /\ ~IsCommentLine(Consumed)) => pSt' = pSt]_vars

\* C26 witness: a summary line, a COMMENT: line and another text line were
\* consumed; the summary is the first line alone and the mode is off.
C26_Witness ==
    /\ reviewText = <<RespText, RespFewFields, RespSummary>>
    /\ pPos = 3
    /\ ~pSt.inSummary
    /\ pSt.summary = <<"T">>
    /\ pSt.comments = <<Remainder(RespFewFields)>>

\* C27: every COMMENT: line whose remainder has at least four colons and an
\* integer between the first and the second yields one positioned comment, in
\* input order, with file path, diff position, line kind and severity the first
\* four fields and the body everything after the fourth colon, further colons
\* kept; kind and severity are taken as they stand.
C27_PositionedCommentExtraction ==
    /\ Len(pSt.positionedComments) = Cardinality(ConsumedUpTo(WellFormedCommentLine, pPos))
    /\ \A i \in ConsumedUpTo(WellFormedCommentLine, pPos) :
          LET f == FieldsOf(Remainder(reviewText[i]))
              k == Cardinality(ConsumedUpTo(WellFormedCommentLine, i))
          IN  pSt.positionedComments[k] =
                 [FilePath |-> f[1], LineNumber |-> Atoi(f[2]).val, LineType |-> f[3],
                  Severity |-> f[4], Comment |-> f[5], OriginalLine |-> <<>>]

\* C27 witness: a positioned comment with a colon in its body and a severity
\* that is none of the known ones was extracted.
C27_Witness ==
    /\ pPos = Len(reviewText)
    /\ reviewText[pPos] = RespPositioned
    /\ \E k \in 1..Len(pSt.positionedComments) :
          /\ pSt.positionedComments[k].Comment = <<"x", ":", "y">>
          /\ pSt.positionedComments[k].Severity = <<"H">>
          /\ pSt.positionedComments[k].LineNumber = 2

\* C28: every COMMENT: line with a non-empty remainder that has fewer than five
\* fields, or whose second field is no integer, yields exactly one unpositioned
\* comment, in input order, whose text is the whole trimmed remainder, and no
\* positioned comment.
C28_MalformedCommentKept ==
    /\ Len(pSt.comments) = Cardinality(ConsumedUpTo(MalformedCommentLine, pPos))
    /\ \A i \in ConsumedUpTo(MalformedCommentLine, pPos) :
          pSt.comments[Cardinality(ConsumedUpTo(MalformedCommentLine, i))] = Remainder(reviewText[i])
    /\ Len(pSt.positionedComments) = Cardinality(ConsumedUpTo(WellFormedCommentLine, pPos))

\* C28 witness: a comment with two fields and a comment with a non-integer second
\* field both became unpositioned comments, in that order.
C28_Witness ==
    /\ reviewText = <<RespFewFields, RespBadNumber>>
    /\ pPos = 2
    /\ pSt.comments = <<Remainder(RespFewFields), Remainder(RespBadNumber)>>
    /\ pSt.positionedComments = <<>>

\* C29: a line that is COMMENT: followed only by whitespace adds no positioned
\* and no unpositioned comment and leaves the summary as it is, yet switches
\* inSummary off, so that a later line that is no COMMENT: line changes nothing.
C29_EmptyCommentEndsSummary ==
    /\ [](ConsumedUpTo(EmptyCommentLine, pPos) # {} => ~pSt.inSummary)
    /\ [][/\ (pPos' = pPos + 1 /\ EmptyCommentLine(Consumed)) =>
                /\ pSt'.comments = pSt.comments
                /\ pSt'.positionedComments = pSt.positionedComments
                /\ pSt'.summary = pSt.summary
                /\ ~pSt'.inSummary
          /\ (/\ pPos' = pPos + 1
              /\ ConsumedUpTo(EmptyCommentLine, pPos) # {}
              /\ ~IsCommentLine(Consumed)) => pSt'.summary = pSt.summary]_vars

\* C29 witness: an empty comment stood between two text lines; only the first
\* text line is in the summary and there is no comment.
C29_Witness ==
    /\ reviewText = <<RespSummary, RespEmptyComment, RespText>>
    /\ pPos = 3
    /\ pSt.summary = <<"S">>
    /\ pSt.comments = <<>>
    /\ pSt.positionedComments = <<>>
    /\ ~pSt.inSummary

\* the consumed lines that precede the first COMMENT: line
SummaryLines ==
    SubSeq(reviewText, 1,
           IF ConsumedUpTo(IsCommentLine, pPos) = {} THEN pPos
           ELSE (CHOOSE i \in ConsumedUpTo(IsCommentLine, pPos) :
                    \A j \in ConsumedUpTo(IsCommentLine, pPos) : i <= j) - 1)

IsNonEmpty(s) == s # <<>>

\* C30: the summary is the whitespace-trimmed non-empty lines that precede the
\* first COMMENT: line, in order, joined by single spaces: it holds no newline
\* and neither begins nor ends with a separator, blank lines add nothing, and
\* without such lines it is empty.
C30_SummaryConstruction ==
    LET trimmed == SelectSeq([i \in 1..Len(SummaryLines) |-> TrimSpace(SummaryLines[i])], IsNonEmpty)
    IN  /\ pSt.summary = Join(trimmed, <<" ">>)
        /\ \A i \in 1..Len(pSt.summary) : pSt.summary[i] # "\n"
        /\ Len(pSt.summary) > 0 => pSt.summary[1] # " " /\ pSt.summary[Len(pSt.summary)] # " "
        /\ trimmed = <<>> => pSt.summary = <<>>

\* C30 witness: two text lines around a blank line were joined by one space.
C30_Witness ==
    /\ reviewText = <<RespSummary, RespBlank, RespText>>
    /\ pPos = 3
    /\ pSt.summary = <<"S", " ", "T">>

-----------------------------------------------------------------------------
(* Claims about hunk headers (SpecDiff).                                   *)

\* the line the annotator's step consumes
ConsumedDiffLine == diff[aPos']

\* the space-separated tokens of a hunk header line
HeaderTokens(line) == Split(line, " ")

\* the start field of a header token: the text after the sign, up to the comma
StartField(token, sign) ==
    LET t == TrimPrefix(token, <<sign>>)
    IN  IF \E i \in 2..Len(t) : t[i] = ","
        THEN SubSeq(t, 1, (CHOOSE i \in 2..Len(t) : t[i] = "," /\ \A j \in 1..(i - 1) : t[j] # ",") - 1)
        ELSE t

\* a resolver target no line matches: the resolver scans the whole text
NoMatch == [LineNumber |-> 0, LineType |-> KindOther]

\* C31: malformed hunk headers are not fatal and leave counters untouched. When
\* the annotator consumes a line that starts with @@: with fewer than three
\* space-separated tokens both line counters keep their values; otherwise each
\* counter whose start field is no numeral keeps its value while the other is set
\* to its own start minus one; the diff position does not change; the line is
\* passed through and the scan goes on; the resolver holds the same counters.
C31_MalformedHeaderKeepsCounters ==
    /\ [](Len(aSt.result) = aPos)
    /\ [][(aPos' = aPos + 1 /\ HasPrefix(ConsumedDiffLine, <<"@", "@">>)) =>
             LET tokens == HeaderTokens(ConsumedDiffLine)
                 oldOk  == Len(tokens) >= 3 /\ IsIntegerText(StartField(tokens[2], "-"))
                 newOk  == Len(tokens) >= 3 /\ IsIntegerText(StartField(tokens[3], "+"))
             IN  /\ ~oldOk => aSt'.oldLineNum = aSt.oldLineNum
                 /\ ~newOk => aSt'.newLineNum = aSt.newLineNum
                 /\ oldOk => aSt'.oldLineNum = Atoi(StartField(tokens[2], "-")).val - 1
                 /\ newOk => aSt'.newLineNum = Atoi(StartField(tokens[3], "+")).val - 1
                 /\ aSt'.diffLineNum = aSt.diffLineNum
                 /\ aSt'.result = Append(aSt.result, PassThrough(ConsumedDiffLine))
                 /\ Counters(ResolverAfter(aPos', NoMatch)) = Counters(aSt')]_vars

\* C31 witness: a header whose old start is no numeral stood between an added and
\* a removed line: the old counter went on from 0, the new one was set to 6, and
\* the removed line got position 2.
C31_Witness ==
    /\ diff = <<AddedLine, HunkBadOld, RemovedLine>>
    /\ aPos = 3
    /\ Counters(aSt) = <<1, 6, 2>>
    /\ aSt.result[3] = Annotated(RemovedLine, "OLD_LINE", 2, 1)

\* a hunk header with at least three tokens whose two start fields are numerals
WellFormedHeader(line) ==
    /\ IsHunkHeaderLine(line)
    /\ Len(HeaderTokens(line)) >= 3
    /\ IsIntegerText(StartField(HeaderTokens(line)[2], "-"))
    /\ IsIntegerText(StartField(HeaderTokens(line)[3], "+"))

\* the starts a and c a well-formed header names
OldStart(line) == Atoi(StartField(HeaderTokens(line)[2], "-")).val
NewStart(line) == Atoi(StartField(HeaderTokens(line)[3], "+")).val

\* the hunk header line i stands under: the last header at or before i, 0 if none
HunkOf(i) ==
    IF \E j \in 1..i : IsHunkHeaderLine(diff[j])
    THEN CHOOSE j \in 1..i :
            IsHunkHeaderLine(diff[j]) /\ \A k \in (j + 1)..i : ~IsHunkHeaderLine(diff[k])
    ELSE 0

\* line i stands under a well-formed header
UnderWellFormedHeader(i) == HunkOf(i) > 0 /\ WellFormedHeader(diff[HunkOf(i)])

\* the lines of the given kinds between the header of line i and line i
KindCount(i, kinds) == Cardinality({k \in (HunkOf(i) + 1)..i : LineKindOf(diff[k]) \in kinds})

\* line i is the first line of its kind in its hunk
FirstOfKind(i, kind) ==
    /\ LineKindOf(diff[i]) = kind
    /\ \A k \in (HunkOf(i) + 1)..(i - 1) : LineKindOf(diff[k]) # kind

\* every annotated line carries the count of the diff's change lines up to it:
\* positions go on across hunk headers without reset or gap
PositionsContinue ==
    /\ aSt.diffLineNum = PositionOf(diff, aPos)
    /\ \A i \in 1..aPos : LineKindOf(diff[i]) # <<>> => aSt.result[i].diffLine = PositionOf(diff, i)

\* C32 as stated: each well-formed header re-bases the counters without touching
\* the diff position, and the first removed line of a hunk is numbered old a, its
\* first added line new c and its first context line new c.
C32_FirstOfKindNumberedFromHeader ==
    /\ PositionsContinue
    /\ \A i \in 1..aPos : UnderWellFormedHeader(i) =>
          /\ FirstOfKind(i, KindOld) => aSt.result[i].lineNum = OldStart(diff[HunkOf(i)])
          /\ FirstOfKind(i, KindNew) => aSt.result[i].lineNum = NewStart(diff[HunkOf(i)])
          /\ FirstOfKind(i, KindContext) => aSt.result[i].lineNum = NewStart(diff[HunkOf(i)])

\* C32 amended: numbering across hunks. After a well-formed header
\* @@ -a[,b] +c[,d] @@ the old counter is a-1 plus the removed and context lines
\* of the hunk so far and the new counter c-1 plus its added and context lines,
\* in annotator and resolver alike; a removed line is numbered with the old
\* counter, an added or context line with the new one, so the line right after
\* the header is numbered a when removed and c when added or context; the diff
\* positions go on from the previous hunk without reset or gap.
C32_NumberingAcrossHunks ==
    /\ PositionsContinue
    /\ Counters(ResolverAfter(aPos, NoMatch)) = Counters(aSt)
    /\ (aPos > 0 /\ UnderWellFormedHeader(aPos)) =>
          /\ aSt.oldLineNum = OldStart(diff[HunkOf(aPos)]) - 1 + KindCount(aPos, {KindOld, KindContext})
          /\ aSt.newLineNum = NewStart(diff[HunkOf(aPos)]) - 1 + KindCount(aPos, {KindNew, KindContext})
    /\ \A i \in 1..aPos : UnderWellFormedHeader(i) =>
          /\ LineKindOf(diff[i]) = KindOld =>
                aSt.result[i].lineNum = OldStart(diff[HunkOf(i)]) - 1 + KindCount(i, {KindOld, KindContext})
          /\ LineKindOf(diff[i]) \in {KindNew, KindContext} =>
                aSt.result[i].lineNum = NewStart(diff[HunkOf(i)]) - 1 + KindCount(i, {KindNew, KindContext})
          /\ (i = HunkOf(i) + 1 /\ LineKindOf(diff[i]) = KindOld) =>
                aSt.result[i].lineNum = OldStart(diff[HunkOf(i)])
          /\ (i = HunkOf(i) + 1 /\ LineKindOf(diff[i]) \in {KindNew, KindContext}) =>
                aSt.result[i].lineNum = NewStart(diff[HunkOf(i)])

\* C32 witness: a diff of two hunks is annotated to its end: the removed line
\* after a context line of the first hunk is old 11 at position 2, and the added
\* line of the second hunk is new 5 at position 3.
C32_Witness ==
    /\ diff = <<HunkHeader, ContextLine, RemovedLine, HunkNoCount, AddedLine>>
    /\ aPos = 5
    /\ Annotations = <<<<"none", 0, 0>>, <<"CONTEXT", 1, 20>>, <<"OLD_LINE", 2, 11>>,
                       <<"none", 0, 0>>, <<"NEW_LINE", 3, 5>>>>

-----------------------------------------------------------------------------
(* Claims about the prompt's file sections (Spec).                         *)

\* the diff positions written into an annotated text, in order
PositionsWritten(annotated) ==
    LET marked == SelectSeq(annotated, LAMBDA l : l.tag # "none")
    IN  [i \in 1..Len(marked) |-> marked[i].diffLine]

\* the changes of the merge request that have the named new path
ChangesAt(path) == {i \in 1..Len(changes) : changes[i].NewPath = path}

\* C33: annotation is a function of one Change's diff text alone. Every file
\* section of the prompt holds the annotation of its own Change's diff computed
\* from counters at 0: its diff positions are 1, 2, ... whatever Changes precede
\* it in the review, and it equals the annotation of that text taken by itself.
C33_AnnotationPerChange ==
    \A k \in 1..Len(prompt.sections) :
        LET section == prompt.sections[k]
        IN  /\ PositionsWritten(section.processedDiff) =
                  [i \in 1..Len(PositionsWritten(section.processedDiff)) |-> i]
            /\ \E i \in ChangesAt(section.File) :
                  section.processedDiff = AnnotateFrom(changes[i].Diff, 1, AnnotatorInit).result

\* C33 witness: the prompt holds the section of file a (positions 1 and 2) and
\* after it the section of v/x, whose one added line is again at position 1.
C33_Witness ==
    /\ Len(prompt.sections) = 2
    /\ prompt.sections[1].File = PathA
    /\ PositionsWritten(prompt.sections[1].processedDiff) = <<1, 2>>
    /\ prompt.sections[2].File = PathV
    /\ prompt.sections[2].processedDiff = <<PassThrough(HunkNoCount), Annotated(AddedLine, "NEW_LINE", 1, 5)>>

\* C34: no positioned comment is lost, whichever external call fails. For every
\* positioned comment the dispatch loop has handled, the cycle either made a
\* successful positioned post or attempted a general-comment post for it, also
\* when the merge-request details could not be fetched.
C34_NoPositionedCommentLost ==
    \A i \in 1..PositionedRun :
        \/ \E k \in CallsFor("postPositionedCommentHTTP", <<"positioned", i>>) : log[k].ok
        \/ CallsFor("PostMRComment", <<"positioned", i>>) # {}

-----------------------------------------------------------------------------
(* Parser conservation (SpecParse).                                        *)

\* a line that, trimmed, begins with COMMENT: and has a non-empty remainder
YieldingLine(rawLine) == IsCommentLine(rawLine) /\ Remainder(rawLine) # <<>>

\* s is t with one element added at its end
GrewByOne(s, t) == Len(s) = Len(t) + 1 /\ SubSeq(s, 1, Len(t)) = t

\* C35: parser conservation. The positioned and the unpositioned comments held
\* are together as many as the consumed lines that begin with COMMENT: and have
\* a non-empty remainder; consuming such a line adds one comment at the end of
\* exactly one of the two sequences (a positioned one whose file path opens the
\* remainder, or the remainder as an unpositioned one) and leaves the other as it
\* is; consuming any other line leaves both sequences as they are.
C35_ParserConservation ==
    /\ [](Len(pSt.positionedComments) + Len(pSt.comments) =
              Cardinality(ConsumedUpTo(YieldingLine, pPos)))
    /\ [][pPos' = pPos + 1 =>
             IF YieldingLine(Consumed)
             THEN \/ /\ GrewByOne(pSt'.positionedComments, pSt.positionedComments)
                     /\ HasPrefix(Remainder(Consumed),
                                  pSt'.positionedComments[Len(pSt'.positionedComments)].FilePath \o <<":">>)
                     /\ pSt'.comments = pSt.comments
                  \/ /\ pSt'.comments = Append(pSt.comments, Remainder(Consumed))
                     /\ pSt'.positionedComments = pSt.positionedComments
             ELSE /\ pSt'.positionedComments = pSt.positionedComments
                  /\ pSt'.comments = pSt.comments]_vars

\* C35 witness: of three consumed lines the first is summary text and yields
\* nothing, the second yields a positioned and the third an unpositioned comment.
C35_Witness ==
    /\ reviewText = <<RespText, RespPositioned, RespBadNumber>>
    /\ pPos = 3
    /\ Len(pSt.positionedComments) = 1
    /\ pSt.comments = <<Remainder(RespBadNumber)>>

-----------------------------------------------------------------------------
(* Claims about what the positioned post carries (SpecDispatch, Spec).     *)

\* C36: context-line positions are posted with the correct pair of line numbers.
\* For a comment of kind context that resolves, the positioned post carries as
\* old_line the old-file line number and as new_line the new-file line number of
\* the diff line at the comment's position.
C36_ContextPairPosted ==
    \A j \in DiscussionsIn(log) :
        rTarget.LineType = KindContext =>
            \A i \in Hits :
                LET at == AnnotateFrom(SubSeq(diff, 1, i), 1, AnnotatorInit)
                IN  /\ log[j].form.new_line = <<at.newLineNum>>
                    /\ log[j].form.old_line = <<at.oldLineNum>>

\* the files annotated in the prompt of the cycle
PromptFiles == {prompt.sections[s].File : s \in 1..Len(prompt.sections)}

\* C37: positioned posts are confined to reviewed files. Every positioned post
\* of the cycle is for a file whose Change was kept by the path filter and
\* annotated in the cycle's prompt; none is made for an excluded file or for a
\* deleted file left out of the prompt.
C37_PositionedPostsConfined ==
    \A k \in 1..Len(log) :
        log[k].call = "postPositionedCommentHTTP" => log[k].form.new_path \in PromptFiles

-----------------------------------------------------------------------------
(* Claims about the prompt's contents (SpecReview).                        *)

\* the rule set the review filtered with: empty when the config could not be had
RulesUsed == IF cfgRet.err THEN <<>> ELSE cfgRet.ExcludePaths

\* the positions of the changes the rule set excludes, and of those kept and not deleted
ExcludedChanges == ExcludedByStatus(changes, RulesUsed)
ShownChanges == {i \in 1..Len(changes) : i \notin ExcludedChanges /\ ~changes[i].DeletedFile}

\* C38: prompt contents follow the kept Changes. Once ReviewCode has run, the
\* prompt's sections are, in input order, one section per kept Change that is not
\* flagged deleted, under the Change's new path and holding its annotated diff;
\* no section is under the path of a deleted or of an excluded Change.
C38_PromptFollowsKeptChanges ==
    (UpstreamReviewed /\ \E k \in 1..Len(log) : log[k].call = "GenerateContent") =>
        /\ Len(prompt.sections) = Cardinality(ShownChanges)
        /\ \A i \in ShownChanges :
              LET section == prompt.sections[Cardinality({j \in ShownChanges : j <= i})]
              IN  /\ section.File = changes[i].NewPath
                  /\ section.processedDiff = addLineNumbersToDiff(changes[i].Diff)
        /\ \A i \in 1..Len(changes) :
              (changes[i].DeletedFile \/ i \in ExcludedChanges) =>
                  \A s \in 1..Len(prompt.sections) :
                      /\ prompt.sections[s].File # changes[i].NewPath
                      /\ prompt.sections[s].File # changes[i].OldPath

\* C38 witness: of a deleted file b, an excluded file v/x and a file a, in that
\* order, the prompt the model was called with holds the one section of a.
C38_Witness ==
    /\ changes = <<ChangeB, ChangeV, ChangeA>>
    /\ RulesUsed = <<VendorPattern>>
    /\ modelCalls = 1
    /\ Len(prompt.sections) = 1
    /\ prompt.sections[1].File = PathA
    /\ prompt.excludedFiles = <<PathV>>

-----------------------------------------------------------------------------
(* Claims about shutdown (SpecShutdown).                                   *)

\* C39: shutdown does not lose in-flight work. When the process has exited
\* after a signal, every review cycle an accepted webhook started has finished:
\* it posted its comments or ended with an error; none stands between two steps.
C39_ShutdownWaitsForCycles ==
    proc = "exited" => \A c \in 1..Len(cyc) : cyc[c].pc \in {"done", "failed"}

====
